---- MODULE Spec2Model ----
(***************************************************************************)
(* A model of the fission reactivity engine (observer/*.ts) and of the     *)
(* store facade (store/store.ts).                                          *)
(*                                                                         *)
(* The JavaScript heap is modelled explicitly: objects and arrays are      *)
(* records in the sequence objs, Observable instances are records in the   *)
(* sequence obsv.  A property is either a data property or an accessor      *)
(* property installed by defineReactiveProperty; the accessor closures of   *)
(* one defineReactiveProperty call are identified with the Observable they  *)
(* close over, and the field inner of that Observable names the closure of  *)
(* the accessor that was installed before (the pre-existing getter/setter). *)
(*                                                                         *)
(* The engine is written as operators on a world record w that carries the  *)
(* heap, the module-level variables and the pending exception; every        *)
(* action of the specification runs one call of the public API to          *)
(* completion (the code is synchronous and single-threaded).                *)
(***************************************************************************)
EXTENDS Integers, Sequences, FiniteSets, TLC

(***************************************************************************)
(* Bounds of the model.                                                    *)
(***************************************************************************)
MaxOps == 3
MaxNum == 2

(***************************************************************************)
(* enum ReactivityState                                                    *)
(***************************************************************************)
Disabled == 0
Lazy == 1
Enabled == 2

(***************************************************************************)
(* JavaScript values: numbers, undefined, references to heap objects,      *)
(* function values (the computed property definitions) and, for the        *)
(* ATTACHED_OBSERVABLE_KEY slot, references to Observable instances.        *)
(***************************************************************************)
Num(n) == [t |-> "num", n |-> n]
Ref(i) == [t |-> "ref", n |-> i]
Fn(i) == [t |-> "fn", n |-> i]
Obs(i) == [t |-> "obs", n |-> i]
Undefined == [t |-> "undef", n |-> 0]
Null == [t |-> "null", n |-> 0]
NaN == [t |-> "nan", n |-> 0]
Absent == [t |-> "absent", n |-> 0]

IsRef(v) == v.t = "ref"
IsNum(v) == v.t = "num"

\* a !== b (NaN differs from itself)
StrictNotEqual(a, b) == a # b \/ a.t = "nan"

\* Names of the errors the code raises.
NoError == "none"
REACTIVITY_DISABLED_EXCEPTION == "Cannot assign to a observed property when reactivity is disabled."
NOT_OBSERVABLE == "Property is not observable."
PATH_NOT_FOUND == "Object does not contain the property with path"
NOT_PLAIN_OBJECT == "Parameter provided is not a plain javascript object."
TypeError == "TypeError"
MutationError == "Error: thrown by the mutation"
WatcherError == "Error: thrown by the watcher"
ComputeError == "Error: thrown by the computed function"

(***************************************************************************)
(* Properties and objects.                                                 *)
(*   o    the Observable whose reactiveGetter/reactiveSetter back the      *)
(*        property, 0 for a data property                                  *)
(*   val  the value of a data property                                     *)
(*   cfg  [[Configurable]]                                                 *)
(*   here FALSE for a hole of an array (no own property at that index)     *)
(***************************************************************************)
DataProp(v) == [o |-> 0, val |-> v, cfg |-> TRUE, here |-> TRUE]
Hole == [o |-> 0, val |-> Undefined, cfg |-> TRUE, here |-> FALSE]

\* An object literal {k1: v1, ...}
PlainObject(ks, vs) ==
  [isArray |-> FALSE, keys |-> ks, elems |-> [i \in 1..Len(vs) |-> DataProp(vs[i])],
   neg |-> <<>>, sealed |-> FALSE, attached |-> Absent, augmented |-> FALSE,
   constructor |-> "Object"]

\* new Point(v1, ...): an instance of a class with the fields k1, ...
ClassInstance(ks, vs) == [PlainObject(ks, vs) EXCEPT !.constructor = "Point"]

\* An array literal [v1, ...]
ArrayObject(vs) ==
  [isArray |-> TRUE, keys |-> <<>>, elems |-> [i \in 1..Len(vs) |-> DataProp(vs[i])],
   neg |-> <<>>, sealed |-> FALSE, attached |-> Absent, augmented |-> FALSE,
   constructor |-> "Array"]

\* new Observable(value) / the fields of a ComputedObservable
ObservableRec(v, f, self) ==
  [value |-> v, watchers |-> <<>>, observers |-> <<>>, fn |-> f, self |-> self, inner |-> 0]

(***************************************************************************)
(* Keys.  A key of a plain object is a string; a key of an array is an     *)
(* integer: an index (>= 0) or one of the non-index keys "-1", "-2", ...    *)
(* that observeArrayItems can create.                                      *)
(***************************************************************************)
KeyPos(obj, k) == CHOOSE j \in 1..Len(obj.keys) : obj.keys[j] = k
NegPos(obj, k) == CHOOSE j \in 1..Len(obj.neg) : obj.neg[j].key = k

HasOwnProperty(obj, k) ==
  IF obj.isArray
    THEN IF k >= 0 THEN k < Len(obj.elems) /\ obj.elems[k + 1].here
                   ELSE \E j \in 1..Len(obj.neg) : obj.neg[j].key = k
    ELSE \E j \in 1..Len(obj.keys) : obj.keys[j] = k

GetOwnProperty(obj, k) ==
  IF obj.isArray
    THEN IF k >= 0 THEN obj.elems[k + 1] ELSE obj.neg[NegPos(obj, k)].p
    ELSE obj.elems[KeyPos(obj, k)]

\* elems extended with holes up to index k (array exotic [[DefineOwnProperty]]
\* raises length to k + 1 when an index >= length is created)
PadTo(elems, n) == [i \in 1..n |-> IF i <= Len(elems) THEN elems[i] ELSE Hole]

PutOwnProperty(obj, k, p) ==
  IF obj.isArray
    THEN IF k >= 0
           THEN LET n == IF k + 1 > Len(obj.elems) THEN k + 1 ELSE Len(obj.elems)
                IN [obj EXCEPT !.elems = [PadTo(obj.elems, n) EXCEPT ![k + 1] = p]]
           ELSE IF HasOwnProperty(obj, k)
                  THEN [obj EXCEPT !.neg[NegPos(obj, k)].p = p]
                  ELSE [obj EXCEPT !.neg = Append(obj.neg, [key |-> k, p |-> p])]
    ELSE IF HasOwnProperty(obj, k)
           THEN [obj EXCEPT !.elems[KeyPos(obj, k)] = p]
           ELSE [obj EXCEPT !.keys = Append(obj.keys, k), !.elems = Append(obj.elems, p)]

\* Object.keys(data): integer indices ascending, then the other keys in creation order
RECURSIVE IndexKeys(_, _)
IndexKeys(obj, i) ==
  IF i >= Len(obj.elems) THEN <<>>
  ELSE (IF obj.elems[i + 1].here THEN <<i>> ELSE <<>>) \o IndexKeys(obj, i + 1)

ObjectKeys(obj) ==
  IF obj.isArray
    THEN IndexKeys(obj, 0) \o [j \in 1..Len(obj.neg) |-> obj.neg[j].key]
    ELSE obj.keys

(***************************************************************************)
(* util/object.ts                                                          *)
(***************************************************************************)
\* isObject (object.ts 19-21): value !== null && typeof value === 'object'
isObject(v) == IsRef(v)

\* isPlainObject that accepts every object
isPlainObject_AnyObject(w, v) == isObject(v)

\* isPlainObject (object.ts 28-30): isObject(value) && value.constructor === Object
isPlainObject(w, v) == isObject(v) /\ w.objs[v.n].constructor = "Object"

(***************************************************************************)
(* The world: heap + module variables + the exception in flight.           *)
(***************************************************************************)
Throw(w, e) == [w EXCEPT !.exc = e]
Ok(w) == w.exc = NoError
WithV(w, v) == [w |-> w, v |-> v]

\* const r = <expression>; the expression is evaluated once and F continues with r
Bind(r, F(_)) == F(r)

\* catch (exception) { logError(...) }
Caught(w) == [w EXCEPT !.exc = NoError]

(***************************************************************************)
(* observer/reactivity-state.ts                                            *)
(***************************************************************************)
ReactivityState == {Disabled, Lazy, Enabled}

\* The values a caller can pass for a reactivity state, and so the values the
\* variable reactivityState can hold: a number n >= 0 is written n, and the
\* i-th of the strings below is written 0 - i.
ModeStrings == <<"Disabled", "Lazy", "Enabled", "0", "toString", "INVALID">>
Str(s) == 0 - (CHOOSE i \in 1..Len(ModeStrings) : ModeStrings[i] = s)

\* the property names "0", "1", ... of array indices, as they appear in a path
IndexNames == <<"0", "1", "2", "3", "4", "5">>

\* ToPropertyKey(state): a string is its own key, a number its decimal form
ToPropertyKey(state) == IF state < 0 THEN ModeStrings[0 - state] ELSE IndexNames[state + 1]

\* The own keys of the object the enum declaration compiles to (a numeric enum
\* maps the names to the numbers and the numbers back to the names), and keys
\* it inherits from Object.prototype.
EnumKeys == {"Disabled", "Lazy", "Enabled", "0", "1", "2"}
ObjectPrototypeKeys == {"toString", "valueOf", "constructor", "hasOwnProperty"}

\* state in ReactivityState
InReactivityState(state) == ToPropertyKey(state) \in EnumKeys \cup ObjectPrototypeKeys

setReactivityState(w, state) ==
  IF state # w.mode /\ InReactivityState(state) THEN [w EXCEPT !.mode = state] ELSE w

addReactivityQueueItem(w, item) == [w EXCEPT !.queue = Append(w.queue, item)]

\* purgeReactivityQueue that leaves the queue as it is
purgeReactivityQueue_Keep(w) == w

\* purgeReactivityQueue (reactivity-state.ts 89-91)
purgeReactivityQueue(w) == [w EXCEPT !.queue = <<>>]

(***************************************************************************)
(* observer/observable.ts                                                  *)
(***************************************************************************)
IndexOf(s, x) == IF \E i \in 1..Len(s) : s[i] = x
                 THEN (CHOOSE i \in 1..Len(s) : s[i] = x /\ \A j \in 1..(i - 1) : s[j] # x) - 1
                 ELSE 0 - 1

RemoveAt(s, i) == [j \in 1..(Len(s) - 1) |-> IF j < i THEN s[j] ELSE s[j + 1]]

\* observe that registers the edge the wrong way round
ObservableObserve_Backwards(w, o, c) ==
  IF IndexOf(w.obsv[c].observers, o) = 0 - 1
    THEN [w EXCEPT !.obsv[c].observers = Append(@, o)]
    ELSE w

ObservableObserve(w, o, c) ==
  IF IndexOf(w.obsv[o].observers, c) = 0 - 1
    THEN [w EXCEPT !.obsv[o].observers = Append(@, c)]
    ELSE w

ObservableUnobserve(w, o, c) ==
  LET index == IndexOf(w.obsv[o].observers, c)
  IN IF index > 0 - 1 THEN [w EXCEPT !.obsv[o].observers = RemoveAt(@, index + 1)] ELSE w

\* watch without the indexOf test
watch_NoCheck(w, o, watcher) == [w EXCEPT !.obsv[o].watchers = Append(@, watcher)]

\* Observable.watch (observable.ts 128-132)
watch(w, o, watcher) ==
  IF IndexOf(w.obsv[o].watchers, watcher) = 0 - 1
    THEN [w EXCEPT !.obsv[o].watchers = Append(@, watcher)]
    ELSE w

unwatch(w, o, watcher) ==
  LET index == IndexOf(w.obsv[o].watchers, watcher)
  IN IF index > 0 - 1 THEN [w EXCEPT !.obsv[o].watchers = RemoveAt(@, index + 1)] ELSE w

\* A watcher function of the model records its call (as jest.fn() does in the
\* tests); the watcher ThrowingWatcher then throws.
ThrowingWatcher == "bad"

\* the watcher that removes itself when it is called:
\*   function once(value, oldValue) { observable.unwatch(once) }
UnwatchingWatcher == "once"

\* an entry of the log: a value stored by update, a watcher called (seen is the
\* value the Observable holds during the call), or an evaluation finished
Event(kind, o, fn, value, oldValue, seen) ==
  [kind |-> kind, o |-> o, fn |-> fn, value |-> value, oldValue |-> oldValue, seen |-> seen]

(***************************************************************************)
(* The engine proper.  The operators below call each other as the          *)
(* functions of the code do.  Operators that yield a value return          *)
(* [w, v]; an operator entered with an exception in flight is skipped.      *)
(***************************************************************************)
RECURSIVE update(_, _, _)
RECURSIVE NotifyWatchers(_, _, _, _, _)
RECURSIVE NotifyWatchers_NoCatch(_, _, _, _, _)
RECURSIVE UpdateObservers(_, _, _)
RECURSIVE UpdateObservers_Reversed(_, _, _)
RECURSIVE evaluate(_, _)
RECURSIVE ComputedFunction(_, _)
RECURSIVE reactiveGetter(_, _)
RECURSIVE Get(_, _, _)
RECURSIVE reactiveSetter(_, _, _)
RECURSIVE Set(_, _, _, _)
RECURSIVE observeObject(_, _, _)
RECURSIVE ObserveKeys(_, _, _, _)
RECURSIVE NewComputedObservable(_, _, _)
RECURSIVE observe(_, _)
RECURSIVE original(_, _, _, _)
RECURSIVE mutator(_, _, _, _)

\* the object the client observes
Root == Ref(1)

\* the watcher that writes what it receives to another field of the observed
\* object:  function copy(value) { data.qty = value }
WritingWatcher == "copy"

\* the watcher that reads a field of the observed object:
\*   function peek() { return data.qty }
ReadingWatcher == "peek"

\* CallWatcher whose writing watcher defers its write instead of applying it
CallWatcher_Deferring(w, o, watcher, value, oldValue) ==
  Bind([w EXCEPT !.calls = Append(@, [fn |-> watcher, o |-> o, value |-> value,
                                      oldValue |-> oldValue]),
                 !.log = Append(@, Event("call", o, watcher, value, oldValue, w.obsv[o].value))],
       LAMBDA w1 : IF watcher = ThrowingWatcher THEN Throw(w1, WatcherError)
                   ELSE IF watcher = UnwatchingWatcher THEN unwatch(w1, o, watcher)
                   ELSE IF watcher = WritingWatcher
                     THEN addReactivityQueueItem(w1, [func |-> "reactiveSetter",
                                                      closure |-> GetOwnProperty(w1.objs[Root.n], "qty").o,
                                                      args |-> <<value>>, context |-> Undefined])
                   ELSE IF watcher = ReadingWatcher THEN Get(w1, Root.n, "qty").w
                   ELSE w1)

CallWatcher(w, o, watcher, value, oldValue) ==
  Bind([w EXCEPT !.calls = Append(@, [fn |-> watcher, o |-> o, value |-> value,
                                      oldValue |-> oldValue]),
                 !.log = Append(@, Event("call", o, watcher, value, oldValue, w.obsv[o].value))],
       LAMBDA w1 : IF watcher = ThrowingWatcher THEN Throw(w1, WatcherError)
                   ELSE IF watcher = UnwatchingWatcher THEN unwatch(w1, o, watcher)
                   ELSE IF watcher = WritingWatcher THEN Set(w1, Root.n, "qty", value)
                   ELSE IF watcher = ReadingWatcher THEN Get(w1, Root.n, "qty").w
                   ELSE w1)

\* update that stores the value and recomputes the observers but calls no watcher
update_NoNotify(w, o, value) ==
  IF ~Ok(w) THEN w
  ELSE UpdateObservers([w EXCEPT !.obsv[o].value = value,
                                 !.upd = Append(@, [o |-> o, value |-> value]),
                                 !.log = Append(@, Event("store", o, "", value, w.obsv[o].value, value))],
                       o, 0)

\* Observable.update (observable.ts 83-98)
update(w, o, value) ==
  IF ~Ok(w) THEN w
  ELSE UpdateObservers(
         NotifyWatchers([w EXCEPT !.obsv[o].value = value,
                                  !.upd = Append(@, [o |-> o, value |-> value]),
                                  !.log = Append(@, Event("store", o, "", value, w.obsv[o].value, value))],
                        o, 0, value, w.obsv[o].value),
         o, 0)

\* the loop over the watchers without the try/catch around the call
NotifyWatchers_NoCatch(w, o, i, value, oldValue) ==
  IF ~Ok(w) \/ i >= Len(w.obsv[o].watchers) THEN w
  ELSE NotifyWatchers_NoCatch(CallWatcher(w, o, w.obsv[o].watchers[i + 1], value, oldValue),
                              o, i + 1, value, oldValue)

\* for (i < this._watchers.length) try { this._watchers[i](value, oldValue) } catch { logError }
NotifyWatchers(w, o, i, value, oldValue) ==
  IF i >= Len(w.obsv[o].watchers) THEN w
  ELSE NotifyWatchers(Caught(CallWatcher(w, o, w.obsv[o].watchers[i + 1], value, oldValue)),
                      o, i + 1, value, oldValue)

\* the loop over the observers taken from the last one to the first one
UpdateObservers_Reversed(w, o, i) ==
  IF ~Ok(w) \/ i >= Len(w.obsv[o].observers) THEN w
  ELSE UpdateObservers_Reversed(
         Bind(evaluate(w, w.obsv[o].observers[Len(w.obsv[o].observers) - i]),
              LAMBDA r : update(r.w, w.obsv[o].observers[Len(w.obsv[o].observers) - i], r.v)),
         o, i + 1)

\* for (i < this._observers.length) this._observers[i].update(this._observers[i].evaluate())
UpdateObservers(w, o, i) ==
  IF ~Ok(w) \/ i >= Len(w.obsv[o].observers) THEN w
  ELSE UpdateObservers(Bind(evaluate(w, w.obsv[o].observers[i + 1]),
                            LAMBDA r : update(r.w, w.obsv[o].observers[i + 1], r.v)),
                       o, i + 1)

\* the record of one evaluate call: the reactivity state before it, the one
\* the computed function was run in and the one after it, the value the
\* ComputedObservable held and the value yielded
Evaluation(w, c, during, r, after) ==
  [c |-> c, before |-> w.mode, during |-> during, after |-> after, threw |-> ~Ok(r.w),
   v |-> IF Ok(r.w) THEN r.v ELSE Undefined, prior |-> w.obsv[c].value,
   construction |-> w.marker = c]

\* evaluate without the finally block that restores the reactivity state
evaluate_NoRestore(w, c) ==
  Bind(setReactivityState(w, Disabled),
       LAMBDA w0 :
         Bind(ComputedFunction(w0, c),
              LAMBDA r :
                Bind(Caught(r.w),
                     LAMBDA w1 :
                       WithV([w1 EXCEPT !.evals = Append(@, Evaluation(w, c, w0.mode, r, w1.mode)),
                                        !.log = Append(@, Event("evaluate", c, "", IF Ok(r.w) THEN r.v ELSE Undefined,
                                                                w.obsv[c].value, w.obsv[c].value))],
                             IF Ok(r.w) THEN r.v ELSE Undefined))))

\* ComputedObservable.evaluate (computed-observable.ts 55-66)
evaluate(w, c) ==
  Bind(setReactivityState(w, Disabled),
       LAMBDA w0 :
         Bind(ComputedFunction(w0, c),
              LAMBDA r :
                Bind(setReactivityState(Caught(r.w), w.mode),
                     LAMBDA w1 :
                       WithV([w1 EXCEPT !.evals = Append(@, Evaluation(w, c, w0.mode, r, w1.mode)),
                                        !.log = Append(@, Event("evaluate", c, "", IF Ok(r.w) THEN r.v ELSE Undefined,
                                                                w.obsv[c].value, w.obsv[c].value))],
                             IF Ok(r.w) THEN r.v ELSE Undefined))))

\* The computed property definitions of the observed data, bound to their object:
\*   1: total() { return this.price * this.qty }
\*   2: twice() { return this.total * 2 }
\*   3: guarded() { if (this.price === 1) throw new Error(); return this.qty }
\*   4: count() { return this.items.length }
\*   5: nesting() { const a = this.price; observe({ one() { return 1 } }); return a * this.qty }
\*   6: one() { return 1 }
\*   7: writer() { const p = this.price; this.qty = 5; return p }
\*   8: pusher() { const p = this.price; this.items.push(p); return p }
Times(a, b) == IF IsNum(a) /\ IsNum(b) THEN Num(a.n * b.n) ELSE NaN

ComputedFunction(w, c) ==
  IF w.obsv[c].fn = 1
    THEN Bind(Get(w, w.obsv[c].self, "price"),
              LAMBDA a : Bind(Get(a.w, w.obsv[c].self, "qty"),
                              LAMBDA b : WithV(b.w, Times(a.v, b.v))))
    ELSE IF w.obsv[c].fn = 2
      THEN Bind(Get(w, w.obsv[c].self, "total"),
                LAMBDA a : WithV(a.w, Times(a.v, Num(2))))
    ELSE IF w.obsv[c].fn = 4
      THEN Bind(Get(w, w.obsv[c].self, "items"),
                LAMBDA a : WithV(a.w, IF IsRef(a.v) THEN Num(Len(a.w.objs[a.v.n].elems)) ELSE Undefined))
    ELSE IF w.obsv[c].fn = 5
      THEN Bind(Get(w, w.obsv[c].self, "price"),
                LAMBDA a :
                  Bind(Get(observe([a.w EXCEPT !.objs = Append(@, PlainObject(<<"one">>, <<Fn(6)>>))],
                                   Ref(Len(a.w.objs) + 1)),
                           w.obsv[c].self, "qty"),
                       LAMBDA b : WithV(b.w, Times(a.v, b.v))))
    ELSE IF w.obsv[c].fn = 6
      THEN WithV(w, Num(1))
    ELSE IF w.obsv[c].fn = 7
      THEN Bind(Get(w, w.obsv[c].self, "price"),
                LAMBDA a : WithV(Set(a.w, w.obsv[c].self, "qty", Num(5)), a.v))
    ELSE IF w.obsv[c].fn = 8
      THEN Bind(Get(w, w.obsv[c].self, "price"),
                LAMBDA a :
                  Bind(Get(a.w, w.obsv[c].self, "items"),
                       LAMBDA b :
                         WithV(IF b.w.objs[b.v.n].augmented
                                 THEN mutator(b.w, "push", b.v.n, <<a.v>>).w
                                 ELSE original(b.w, "push", b.v.n, <<a.v>>).w,
                               a.v)))
      ELSE Bind(Get(w, w.obsv[c].self, "price"),
                LAMBDA a : IF a.v = Num(1) THEN WithV(Throw(a.w, ComputeError), Undefined)
                           ELSE Get(a.w, w.obsv[c].self, "qty"))

\* a constructor that puts back the marker it found instead of clearing it
NewComputedObservable_Restore(w, f, self) ==
  LET c == Len(w.obsv) + 1
  IN Bind(evaluate([w EXCEPT !.obsv = Append(@, ObservableRec(Undefined, f, self)),
                             !.marker = c], c),
          LAMBDA r : WithV([r.w EXCEPT !.obsv[c].value = r.v, !.marker = w.marker], c))

\* new ComputedObservable(computedFunction) (computed-observable.ts 42-48)
NewComputedObservable(w, f, self) ==
  LET c == Len(w.obsv) + 1
  IN Bind(evaluate([w EXCEPT !.obsv = Append(@, ObservableRec(Undefined, f, self)),
                             !.marker = c], c),
          LAMBDA r : WithV([r.w EXCEPT !.obsv[c].value = r.v, !.marker = 0], c))

\* reactiveGetter that does not register the evaluating ComputedObservable
reactiveGetter_NoObserve(w, o) ==
  IF ~Ok(w) THEN WithV(w, Undefined)
  ELSE IF w.obsv[o].inner # 0
    THEN reactiveGetter(w, w.obsv[o].inner)
    ELSE WithV(w, w.obsv[o].value)

\* reactiveGetter called without the raw request (observer.ts 161-169)
reactiveGetter(w, o) ==
  IF ~Ok(w) THEN WithV(w, Undefined)
  ELSE LET w1 == IF w.marker # 0 THEN ObservableObserve(w, o, w.marker) ELSE w
       IN IF w.obsv[o].inner # 0
            THEN reactiveGetter(w1, w.obsv[o].inner)
            ELSE WithV(w1, w.obsv[o].value)

\* obj[k]: the ordinary [[Get]] of an own property (no prototype has these keys)
\* Get that finds the ComputedObservable constructed last still in the marker
Get_StaleMarker(w, id, k) ==
  IF ~Ok(w) \/ ~HasOwnProperty(w.objs[id], k) THEN WithV(w, Undefined)
  ELSE LET p == GetOwnProperty(w.objs[id], k)
           computed == {c \in DOMAIN w.obsv : w.obsv[c].fn # 0}
           last == IF computed = {} THEN 0
                   ELSE CHOOSE c \in computed : \A d \in computed : d <= c
       IN IF p.o = 0 THEN WithV(w, p.val)
          ELSE reactiveGetter([w EXCEPT !.marker = last], p.o)

Get(w, id, k) ==
  IF ~Ok(w) \/ ~HasOwnProperty(w.objs[id], k) THEN WithV(w, Undefined)
  ELSE LET p == GetOwnProperty(w.objs[id], k)
       IN IF p.o = 0 THEN WithV(w, p.val) ELSE reactiveGetter(w, p.o)

\* defineReactiveProperty (observer.ts 150-190); Object.defineProperty rejects
\* the redefinition of a non-configurable property with a TypeError
defineReactiveProperty(w, id, k, o) ==
  IF ~Ok(w) THEN w
  ELSE LET obj == w.objs[id]
           exists == HasOwnProperty(obj, k)
           cur == IF exists THEN GetOwnProperty(obj, k) ELSE Hole
       IN IF (exists /\ ~cur.cfg) \/ (~exists /\ obj.sealed)
            THEN Throw(w, TypeError)
            ELSE [w EXCEPT !.objs[id] = PutOwnProperty(obj, k,
                                 [o |-> o, val |-> Undefined, cfg |-> exists /\ cur.cfg, here |-> TRUE]),
                           !.obsv[o].inner = cur.o]

SealObject(obj) ==
  [obj EXCEPT !.sealed = TRUE,
              !.elems = [i \in 1..Len(obj.elems) |-> [obj.elems[i] EXCEPT !.cfg = FALSE]]]

\* observeObject (observer.ts 94-126)
observeObject(w, data, observable) ==
  IF ~Ok(w) \/ ~isObject(data) THEN w
  ELSE Bind(ObserveKeys(w, data.n, ObjectKeys(w.objs[data.n]), 1),
            LAMBDA w1 :
              IF ~Ok(w1) THEN w1
              ELSE IF w1.objs[data.n].isArray
                THEN IF w1.objs[data.n].attached = Absent
                       THEN [w1 EXCEPT !.objs[data.n].attached = observable,
                                       !.objs[data.n].augmented = TRUE]
                       ELSE w1
                ELSE [w1 EXCEPT !.objs[data.n] = SealObject(@)])

\* the loop over Object.keys(data) of observeObject
ObserveKeys(w, id, keys, i) ==
  IF ~Ok(w) \/ i > Len(keys) THEN w
  ELSE ObserveKeys(
         Bind(Get(w, id, keys[i]),
              LAMBDA g :
                IF g.v.t = "fn"
                  THEN Bind(NewComputedObservable(g.w, g.v.n, id),
                            LAMBDA c : defineReactiveProperty(c.w, id, keys[i], c.v))
                  ELSE defineReactiveProperty(
                         observeObject([g.w EXCEPT !.obsv = Append(@, ObservableRec(g.v, 0, 0))],
                                       g.v, Obs(Len(g.w.obsv) + 1)),
                         id, keys[i], Len(g.w.obsv) + 1)),
         id, keys, i + 1)

\* reactiveSetter that updates without comparing with the stored value
reactiveSetter_NoCompare(w, o, value) ==
  IF ~Ok(w) THEN w
  ELSE IF w.mode = Enabled
    THEN update(observeObject(w, value, Obs(o)), o, value)
    ELSE IF w.mode = Disabled
      THEN Throw(w, REACTIVITY_DISABLED_EXCEPTION)
      ELSE addReactivityQueueItem(w, [func |-> "reactiveSetter", closure |-> o,
                                      args |-> <<value>>, context |-> Undefined])

\* reactiveSetter (observer.ts 173-187)
reactiveSetter(w, o, value) ==
  IF ~Ok(w) THEN w
  ELSE IF w.mode = Enabled
    THEN LET getter == w.obsv[o].inner
             setter == IF getter # 0 /\ w.obsv[getter].fn = 0 THEN getter ELSE 0
         IN Bind(IF getter # 0
                   THEN reactiveGetter(IF setter # 0 THEN reactiveSetter(w, setter, value) ELSE w,
                                       getter)
                   ELSE WithV(w, value),
                 LAMBDA g :
                   IF Ok(g.w) /\ StrictNotEqual(g.w.obsv[o].value, g.v)
                     THEN update(observeObject(g.w, g.v, Obs(o)), o, g.v)
                     ELSE g.w)
    ELSE IF w.mode = Disabled
      THEN Throw(w, REACTIVITY_DISABLED_EXCEPTION)
      ELSE addReactivityQueueItem(w, [func |-> "reactiveSetter", closure |-> o,
                                      args |-> <<value>>, context |-> Undefined])

\* [[Set]] on an object whose computed properties have the reactive setter too
Set_ComputedWritable(w, id, k, v) ==
  IF ~Ok(w) THEN w
  ELSE LET obj == w.objs[id]
       IN IF HasOwnProperty(obj, k)
            THEN LET p == GetOwnProperty(obj, k)
                 IN IF p.o = 0 THEN [w EXCEPT !.objs[id] = PutOwnProperty(obj, k, [p EXCEPT !.val = v])]
                    ELSE reactiveSetter(w, p.o, v)
            ELSE IF obj.sealed THEN Throw(w, TypeError)
            ELSE [w EXCEPT !.objs[id] = PutOwnProperty(obj, k, DataProp(v))]

\* obj[k] = v in strict mode: the ordinary [[Set]]; an accessor property whose
\* set is undefined (observer.ts 171: a ComputedObservable) rejects the assignment
Set(w, id, k, v) ==
  IF ~Ok(w) THEN w
  ELSE LET obj == w.objs[id]
       IN IF HasOwnProperty(obj, k)
            THEN LET p == GetOwnProperty(obj, k)
                 IN IF p.o = 0 THEN [w EXCEPT !.objs[id] = PutOwnProperty(obj, k, [p EXCEPT !.val = v])]
                    ELSE IF w.obsv[p.o].fn # 0 THEN Throw(w, TypeError)
                    ELSE reactiveSetter(w, p.o, v)
            ELSE IF obj.sealed THEN Throw(w, TypeError)
            ELSE [w EXCEPT !.objs[id] = PutOwnProperty(obj, k, DataProp(v))]


(***************************************************************************)
(* The native Array.prototype methods (ECMAScript 22.1.3), which the       *)
(* wrapped methods call as original.apply(this, arguments).  They work     *)
(* through [[Get]], [[Set]] and [[Delete]] and therefore through the       *)
(* reactive accessors of the elements.                                      *)
(***************************************************************************)
ArrayLength(w, id) == Len(w.objs[id].elems)

\* DeletePropertyOrThrow(O, k)
DeleteProperty(w, id, k) ==
  IF ~Ok(w) \/ ~HasOwnProperty(w.objs[id], k) THEN w
  ELSE IF ~GetOwnProperty(w.objs[id], k).cfg THEN Throw(w, TypeError)
  ELSE [w EXCEPT !.objs[id] = PutOwnProperty(@, k, Hole)]

\* Set(O, "length", n, true): ArraySetLength deletes from the top down to n
RECURSIVE SetLength(_, _, _)
SetLength(w, id, n) ==
  LET len == ArrayLength(w, id)
  IN IF ~Ok(w) THEN w
     ELSE IF n >= len THEN [w EXCEPT !.objs[id].elems = PadTo(@, n)]
     ELSE IF w.objs[id].elems[len].here /\ ~w.objs[id].elems[len].cfg THEN Throw(w, TypeError)
     ELSE SetLength([w EXCEPT !.objs[id].elems = SubSeq(@, 1, len - 1)], id, n)

\* if HasProperty(from) then Set(to, Get(from)) else DeletePropertyOrThrow(to)
Move(w, id, from, to) ==
  IF ~Ok(w) THEN w
  ELSE IF HasOwnProperty(w.objs[id], from)
    THEN Bind(Get(w, id, from), LAMBDA g : Set(g.w, id, to, g.v))
    ELSE DeleteProperty(w, id, to)

\* Move(k + dFrom, k + dTo) for k = first, first + step, ..., last
RECURSIVE MoveLoop(_, _, _, _, _, _, _)
MoveLoop(w, id, k, last, step, dFrom, dTo) ==
  IF ~Ok(w) \/ (step > 0 /\ k > last) \/ (step < 0 /\ k < last) THEN w
  ELSE MoveLoop(Move(w, id, k + dFrom, k + dTo), id, k + step, last, step, dFrom, dTo)

\* Set(k, items[j]), Set(k + 1, items[j + 1]), ...
RECURSIVE SetItems(_, _, _, _, _)
SetItems(w, id, k, items, j) ==
  IF ~Ok(w) \/ j > Len(items) THEN w
  ELSE SetItems(Set(w, id, k, items[j]), id, k + 1, items, j + 1)

\* the values Get(k) of the own properties k = from .. to - 1
RECURSIVE GetRange(_, _, _, _)
GetRange(w, id, from, to) ==
  IF ~Ok(w) \/ from >= to THEN WithV(w, <<>>)
  ELSE IF HasOwnProperty(w.objs[id], from)
    THEN Bind(Get(w, id, from),
              LAMBDA g : Bind(GetRange(g.w, id, from + 1, to),
                              LAMBDA r : WithV(r.w, <<g.v>> \o r.v)))
    ELSE GetRange(w, id, from + 1, to)

\* DeletePropertyOrThrow(k - 1) for k = from down to k > to
RECURSIVE DeleteDown(_, _, _, _)
DeleteDown(w, id, k, to) ==
  IF ~Ok(w) \/ k <= to THEN w
  ELSE DeleteDown(DeleteProperty(w, id, k - 1), id, k - 1, to)

NativePush(w, id, args) ==
  LET len == ArrayLength(w, id)
  IN WithV(SetLength(SetItems(w, id, len, args, 1), id, len + Len(args)),
           <<Num(len + Len(args))>>)

NativePop(w, id) ==
  LET len == ArrayLength(w, id)
  IN IF len = 0 THEN WithV(w, <<Undefined>>)
     ELSE Bind(Get(w, id, len - 1),
               LAMBDA g : WithV(SetLength(DeleteProperty(g.w, id, len - 1), id, len - 1), <<g.v>>))

NativeShift(w, id) ==
  LET len == ArrayLength(w, id)
  IN IF len = 0 THEN WithV(w, <<Undefined>>)
     ELSE Bind(Get(w, id, 0),
               LAMBDA first :
                 WithV(SetLength(DeleteProperty(MoveLoop(first.w, id, 1, len - 1, 1, 0, 0 - 1),
                                                id, len - 1),
                                 id, len - 1),
                       <<first.v>>))

NativeUnshift(w, id, args) ==
  LET len == ArrayLength(w, id)
      argCount == Len(args)
  IN WithV(SetLength(IF argCount > 0
                       THEN SetItems(MoveLoop(w, id, len, 1, 0 - 1, 0 - 1, argCount - 1),
                                     id, 0, args, 1)
                       ELSE w,
                     id, len + argCount),
           <<Num(len + argCount)>>)

Min(a, b) == IF a < b THEN a ELSE b
Max(a, b) == IF a > b THEN a ELSE b

\* splice(start, deleteCount, ...items); the result is a new plain array,
\* given here by the list of its elements
NativeSplice(w, id, args) ==
  LET len == ArrayLength(w, id)
      relativeStart == IF Len(args) >= 1 THEN args[1].n ELSE 0
      actualStart == IF relativeStart < 0 THEN Max(len + relativeStart, 0) ELSE Min(relativeStart, len)
      items == IF Len(args) > 2 THEN SubSeq(args, 3, Len(args)) ELSE <<>>
      itemCount == Len(items)
      actualDeleteCount == IF Len(args) = 0 THEN 0
                           ELSE IF Len(args) = 1 THEN len - actualStart
                           ELSE Min(Max(args[2].n, 0), len - actualStart)
  IN Bind(GetRange(w, id, actualStart, actualStart + actualDeleteCount),
          LAMBDA A :
            WithV(SetLength(
                    SetItems(
                      IF itemCount < actualDeleteCount
                        THEN DeleteDown(MoveLoop(A.w, id, actualStart, len - actualDeleteCount - 1, 1,
                                                 actualDeleteCount, itemCount),
                                        id, len, len - actualDeleteCount + itemCount)
                        ELSE MoveLoop(A.w, id, len - actualDeleteCount, actualStart + 1, 0 - 1,
                                      actualDeleteCount - 1, itemCount - 1),
                      id, actualStart, items, 1),
                    id, len - actualDeleteCount + itemCount),
                  A.v))

\* sort((x, y) => x - y): SortIndexedProperties reads every element, sorts the
\* list (stable; undefined last; a NaN result of the comparator counts as 0)
\* and writes it back in index order
SortBefore(x, y) ==
  IF x = Undefined THEN FALSE
  ELSE IF y = Undefined THEN TRUE
  ELSE IsNum(x) /\ IsNum(y) /\ x.n < y.n

RECURSIVE InsertSorted(_, _)
InsertSorted(s, x) ==
  IF s = <<>> THEN <<x>>
  ELSE IF SortBefore(x, Head(s)) THEN <<x>> \o s
  ELSE <<Head(s)>> \o InsertSorted(Tail(s), x)

RECURSIVE SortList(_)
SortList(s) == IF s = <<>> THEN <<>> ELSE InsertSorted(SortList(SubSeq(s, 1, Len(s) - 1)), s[Len(s)])

NativeSort(w, id) ==
  Bind(GetRange(w, id, 0, ArrayLength(w, id)),
       LAMBDA r : WithV(DeleteDown(SetItems(r.w, id, 0, SortList(r.v), 1),
                                   id, ArrayLength(w, id), Len(r.v)),
                        <<Ref(id)>>))

\* one iteration of reverse for the pair (lower, upper)
ReversePair(w, id, lower, upper) ==
  LET lowerExists == HasOwnProperty(w.objs[id], lower)
      upperExists == HasOwnProperty(w.objs[id], upper)
  IN Bind(IF lowerExists THEN Get(w, id, lower) ELSE WithV(w, Undefined),
          LAMBDA gl :
            Bind(IF upperExists THEN Get(gl.w, id, upper) ELSE WithV(gl.w, Undefined),
                 LAMBDA gu :
                   Bind(IF upperExists THEN Set(gu.w, id, lower, gu.v)
                        ELSE IF lowerExists THEN DeleteProperty(gu.w, id, lower)
                        ELSE gu.w,
                        LAMBDA w1 :
                          IF lowerExists THEN Set(w1, id, upper, gl.v)
                          ELSE IF upperExists THEN DeleteProperty(w1, id, upper)
                          ELSE w1)))

RECURSIVE ReverseLoop(_, _, _, _)
ReverseLoop(w, id, lower, len) ==
  IF ~Ok(w) \/ lower >= len \div 2 THEN w
  ELSE ReverseLoop(ReversePair(w, id, lower, len - lower - 1), id, lower + 1, len)

NativeReverse(w, id) == WithV(ReverseLoop(w, id, 0, ArrayLength(w, id)), <<Ref(id)>>)

\* original.apply(this, arguments)
original(w, method, id, args) ==
  CASE method = "push" -> NativePush(w, id, args)
    [] method = "pop" -> NativePop(w, id)
    [] method = "shift" -> NativeShift(w, id)
    [] method = "unshift" -> NativeUnshift(w, id, args)
    [] method = "splice" -> NativeSplice(w, id, args)
    [] method = "sort" -> NativeSort(w, id)
    [] method = "reverse" -> NativeReverse(w, id)

(***************************************************************************)
(* observer/array.ts                                                       *)
(***************************************************************************)
\* observeArrayItems (array.ts 69-75)
RECURSIVE observeArrayItems(_, _, _, _)
observeArrayItems(w, id, i, stop) ==
  IF ~Ok(w) \/ i >= stop THEN w
  ELSE observeArrayItems(
         Bind(Get(w, id, i),
              LAMBDA g :
                Bind(Get(observeObject(g.w, g.v, Undefined), id, i),
                     LAMBDA g2 :
                       IF Ok(g2.w)
                         THEN defineReactiveProperty(
                                [g2.w EXCEPT !.obsv = Append(@, ObservableRec(g2.v, 0, 0))],
                                id, i, Len(g2.w.obsv) + 1)
                         ELSE g2.w)),
         id, i + 1, stop)

\* mutator with the branches for Disabled and Lazy taken for each other
mutator_DisabledDefers(w, method, id, args) ==
  IF w.mode = Enabled
    THEN Bind(original(w, method, id, args),
              LAMBDA result :
                LET observable == IF result.w.objs[id].attached = Absent THEN Undefined
                                  ELSE result.w.objs[id].attached
                    length == ArrayLength(result.w, id)
                    insertedAmount == IF Len(args) >= 2 THEN Max(Len(args) - args[2].n, 0) ELSE 0
                IN Bind(IF method \in {"push", "unshift"}
                          THEN observeArrayItems(result.w, id, length - Len(args), length)
                          ELSE IF method = "splice"
                            THEN observeArrayItems(result.w, id, length - insertedAmount, length)
                            ELSE result.w,
                        LAMBDA w2 :
                          Bind(IF ~Ok(w2) THEN w2
                               ELSE IF observable.t = "obs" THEN update(w2, observable.n, Ref(id))
                               ELSE Throw(w2, TypeError),
                               LAMBDA w3 : WithV(w3, IF Ok(w3) THEN result.v ELSE <<>>))))
    ELSE IF w.mode = Lazy
      THEN WithV(Throw(w, REACTIVITY_DISABLED_EXCEPTION), <<>>)
      ELSE WithV(addReactivityQueueItem(w, [func |-> method, closure |-> 0,
                                            args |-> args, context |-> Ref(id)]),
                 <<Undefined>>)

\* mutator (array.ts 28-56); returns [w, v] with v the list <<result>>
\* (for splice: the elements of the result array)
mutator(w, method, id, args) ==
  IF w.mode = Enabled
    THEN Bind(original(w, method, id, args),
              LAMBDA result :
                LET observable == IF result.w.objs[id].attached = Absent THEN Undefined
                                  ELSE result.w.objs[id].attached
                    length == ArrayLength(result.w, id)
                    insertedAmount == IF Len(args) >= 2 THEN Max(Len(args) - args[2].n, 0) ELSE 0
                IN Bind(IF method \in {"push", "unshift"}
                          THEN observeArrayItems(result.w, id, length - Len(args), length)
                          ELSE IF method = "splice"
                            THEN observeArrayItems(result.w, id, length - insertedAmount, length)
                            ELSE result.w,
                        LAMBDA w2 :
                          Bind(IF ~Ok(w2) THEN w2
                               ELSE IF observable.t = "obs" THEN update(w2, observable.n, Ref(id))
                               ELSE Throw(w2, TypeError),
                               LAMBDA w3 : WithV(w3, IF Ok(w3) THEN result.v ELSE <<>>))))
    ELSE IF w.mode = Disabled
      THEN WithV(Throw(w, REACTIVITY_DISABLED_EXCEPTION), <<>>)
      ELSE WithV(addReactivityQueueItem(w, [func |-> method, closure |-> 0,
                                            args |-> args, context |-> Ref(id)]),
                 <<Undefined>>)

(***************************************************************************)
(* processReactivityQueue (reactivity-state.ts 73-83)                      *)
(***************************************************************************)
RECURSIVE ReplayQueue(_)
ReplayQueue(w) ==
  IF ~Ok(w) \/ w.queue = <<>> THEN w
  ELSE LET item == Head(w.queue)
           w1 == [w EXCEPT !.queue = Tail(@),
                           !.replays = Append(@, [item |-> Head(w.queue), mode |-> w.mode])]
       IN ReplayQueue(IF item.func = "reactiveSetter"
                        THEN reactiveSetter(w1, item.closure, item.args[1])
                        ELSE mutator(w1, item.func, item.context.n, item.args).w)

\* processReactivityQueue that does not set the recorded state again
processReactivityQueue_NoRestore(w) == ReplayQueue(setReactivityState(w, Enabled))

\* processReactivityQueue (reactivity-state.ts 74-84)
processReactivityQueue(w) ==
  Bind(ReplayQueue(setReactivityState(w, Enabled)),
       LAMBDA w1 : IF Ok(w1) THEN setReactivityState(w1, w.mode) ELSE w1)

(***************************************************************************)
(* util/object.ts navigateToPropertyPath and observer/watcher.ts           *)
(***************************************************************************)
IsIndexName(seg) == \E i \in 1..Len(IndexNames) : IndexNames[i] = seg
IndexOfName(seg) == (CHOOSE i \in 1..Len(IndexNames) : IndexNames[i] = seg) - 1

\* obj.hasOwnProperty(segment) for a value obj
ValueHasOwn(w, v, seg) ==
  /\ IsRef(v)
  /\ IF w.objs[v.n].isArray
       THEN seg = "length" \/ (IsIndexName(seg) /\ HasOwnProperty(w.objs[v.n], IndexOfName(seg)))
       ELSE HasOwnProperty(w.objs[v.n], seg)

KeyOf(w, id, seg) == IF w.objs[id].isArray THEN IndexOfName(seg) ELSE seg

\* navigateToPropertyPath (object.ts 58-80): yields [w, v] with v = <<obj, property>>
\* for the callback, or throws
RECURSIVE navigateToPropertyPath(_, _, _, _)
navigateToPropertyPath(w, obj, path, i) ==
  IF obj \in {Undefined, Null} THEN WithV(Throw(w, TypeError), <<>>)
  ELSE IF ~ValueHasOwn(w, obj, path[i]) THEN WithV(Throw(w, PATH_NOT_FOUND), <<>>)
  ELSE IF i = Len(path) THEN WithV(w, <<obj, path[i]>>)
  ELSE IF path[i] = "length" THEN navigateToPropertyPath(w, Num(ArrayLength(w, obj.n)), path, i + 1)
  ELSE Bind(Get(w, obj.n, KeyOf(w, obj.n, path[i])),
            LAMBDA g : navigateToPropertyPath(g.w, g.v, path, i + 1))

\* extractObservableFromProperty (observer.ts 200-206): descriptor.get(true)
extractObservableFromProperty(w, id, seg) ==
  IF w.objs[id].isArray /\ seg = "length" THEN 0
  ELSE IF ~HasOwnProperty(w.objs[id], KeyOf(w, id, seg)) THEN 0
  ELSE GetOwnProperty(w.objs[id], KeyOf(w, id, seg)).o

\* modifyPropertyWatcherList that returns when the property has no Observable
modifyPropertyWatcherList_NoThrow(w, observedData, path, watcher, operation) ==
  Bind(navigateToPropertyPath(w, observedData, path, 1),
       LAMBDA nav :
         IF ~Ok(nav.w) THEN nav.w
         ELSE LET observable == extractObservableFromProperty(nav.w, nav.v[1].n, nav.v[2])
              IN IF observable # 0
                   THEN IF operation = "add" THEN watch(nav.w, observable, watcher)
                        ELSE unwatch(nav.w, observable, watcher)
                   ELSE nav.w)

\* modifyPropertyWatcherList (watcher.ts 21-40)
modifyPropertyWatcherList(w, observedData, path, watcher, operation) ==
  Bind(navigateToPropertyPath(w, observedData, path, 1),
       LAMBDA nav :
         IF ~Ok(nav.w) THEN nav.w
         ELSE LET observable == extractObservableFromProperty(nav.w, nav.v[1].n, nav.v[2])
              IN IF observable # 0
                   THEN IF operation = "add" THEN watch(nav.w, observable, watcher)
                        ELSE unwatch(nav.w, observable, watcher)
                   ELSE Throw(nav.w, NOT_OBSERVABLE))

\* addPropertyWatcher (watcher.ts 68-76) returns the watcher
addPropertyWatcher(w, data, path, watcher) ==
  Bind(modifyPropertyWatcherList(w, data, path, watcher, "add"),
       LAMBDA w1 : WithV(w1, IF Ok(w1) THEN <<watcher>> ELSE <<>>))

\* removePropertyWatcher (watcher.ts 108-114)
removePropertyWatcher(w, data, path, watcher) ==
  modifyPropertyWatcherList(w, data, path, watcher, "remove")

\* observe (observer.ts 76-84)
observe(w, data) ==
  IF isPlainObject(w, data) THEN observeObject(w, data, Undefined)
  ELSE Throw(w, NOT_PLAIN_OBJECT)

(***************************************************************************)
(* Reading the heap without side effects (used by the properties and by    *)
(* the guards of the actions, never by the engine).                         *)
(***************************************************************************)
RECURSIVE Innermost(_, _)
Innermost(w, o) == IF w.obsv[o].inner = 0 THEN o ELSE Innermost(w, w.obsv[o].inner)

\* the Observables whose accessors are stacked on a property, outermost first
RECURSIVE Layers(_, _)
Layers(w, o) == IF o = 0 THEN <<>> ELSE <<o>> \o Layers(w, w.obsv[o].inner)

RawValue(w, id, k) ==
  IF ~HasOwnProperty(w.objs[id], k) THEN Undefined
  ELSE LET p == GetOwnProperty(w.objs[id], k)
       IN IF p.o = 0 THEN p.val ELSE w.obsv[Innermost(w, p.o)].value

\* the value at a path from a value v; Absent when the path does not resolve
RECURSIVE RawAt(_, _, _)
RawAt(w, v, path) ==
  IF path = <<>> THEN v
  ELSE IF ~IsRef(v) \/ Head(path) = "length" \/ ~ValueHasOwn(w, v, Head(path)) THEN Absent
  ELSE RawAt(w, RawValue(w, v.n, KeyOf(w, v.n, Head(path))), Tail(path))

Parent(path) == SubSeq(path, 1, Len(path) - 1)
Last(path) == path[Len(path)]

\* the property at a path (Hole when the path does not resolve)
PropAt(w, root, path) ==
  LET parent == RawAt(w, root, Parent(path))
  IN IF parent = Absent \/ ~ValueHasOwn(w, parent, Last(path)) \/ Last(path) = "length" THEN Hole
     ELSE GetOwnProperty(w.objs[parent.n], KeyOf(w, parent.n, Last(path)))

\* the values of the elements of the array id
ArrayValues(w, id) == [i \in 1..ArrayLength(w, id) |-> RawValue(w, id, i - 1)]


(***************************************************************************)
(* The state of the program between two calls of its API.                  *)
(***************************************************************************)
VARIABLES
  objs,                         \* the heap: objs[i] is the object with reference i
  obsv,                         \* the Observable instances
  reactivityState,              \* reactivity-state.ts: reactivityState
  reactivityActionQueue,        \* reactivity-state.ts: reactivityActionQueue
  currentEvaluatingObservable,  \* computed-observable.ts: currentEvaluatingObservable (0: undefined)
  op,                           \* the API call made last
  exc,                          \* the exception it raised, NoError if it returned
  ret,                          \* what it returned, as a list
  calls,                        \* the watcher calls made during it, in order
  upd,                          \* the Observable.update calls made during it, in order
  trace,                        \* the statements of mutations/actions run during it
  evals,                        \* the ComputedObservable.evaluate calls made during it, in order
  replays,                      \* the queue items processReactivityQueue invoked during it, in order
  log,                          \* the stores, watcher calls and evaluations made during it, in order
  watching,                     \* history: the addPropertyWatcher calls that succeeded and were not undone
  removed,                      \* history: the removePropertyWatcher calls that succeeded since
  nops                          \* number of API calls made

vars == <<objs, obsv, reactivityState, reactivityActionQueue, currentEvaluatingObservable,
          op, exc, ret, calls, upd, trace, evals, replays, log, watching, removed, nops>>

\* the world at the start of a call
World ==
  [objs |-> objs, obsv |-> obsv, mode |-> reactivityState, queue |-> reactivityActionQueue,
   marker |-> currentEvaluatingObservable, calls |-> <<>>, upd |-> <<>>, trace |-> <<>>,
   evals |-> <<>>, replays |-> <<>>, log |-> <<>>, exc |-> NoError]

\* the state a call leaves behind
Leave(w, o, r) ==
  /\ objs' = w.objs
  /\ obsv' = w.obsv
  /\ reactivityState' = w.mode
  /\ reactivityActionQueue' = w.queue
  /\ currentEvaluatingObservable' = w.marker
  /\ calls' = w.calls
  /\ upd' = w.upd
  /\ trace' = w.trace
  /\ evals' = w.evals
  /\ replays' = w.replays
  /\ log' = w.log
  /\ exc' = w.exc
  /\ ret' = r
  /\ op' = o
  /\ nops' = nops + 1

Op(name, path, method, args, old) ==
  [name |-> name, path |-> path, method |-> method, args |-> args, old |-> old,
   mode |-> reactivityState, queued |-> Len(reactivityActionQueue)]

NoOp == [name |-> "init", path |-> <<>>, method |-> "", args |-> <<>>, old |-> Undefined,
         mode |-> Enabled, queued |-> 0]

(***************************************************************************)
(* The data the program is run on.  Literals are written                   *)
(*   LNum(n): n      LArr(ns): [n1, n2, ...]      LObj(n): {n: n}          *)
(***************************************************************************)
LNum(n) == [kind |-> "num", ns |-> <<n>>]
LArr(ns) == [kind |-> "arr", ns |-> ns]
LObj(n) == [kind |-> "obj", ns |-> <<n>>]

\* evaluating a literal allocates its object
Alloc(w, lit) ==
  IF lit.kind = "num" THEN WithV(w, Num(lit.ns[1]))
  ELSE IF lit.kind = "arr"
    THEN WithV([w EXCEPT !.objs = Append(@, ArrayObject([i \in 1..Len(lit.ns) |-> Num(lit.ns[i])]))],
               Ref(Len(w.objs) + 1))
    ELSE WithV([w EXCEPT !.objs = Append(@, PlainObject(<<"n">>, <<Num(lit.ns[1])>>))],
               Ref(Len(w.objs) + 1))

RECURSIVE AllocAll(_, _)
AllocAll(w, lits) ==
  IF lits = <<>> THEN WithV(w, <<>>)
  ELSE Bind(Alloc(w, Head(lits)),
            LAMBDA a : Bind(AllocAll(a.w, Tail(lits)),
                            LAMBDA r : WithV(r.w, <<a.v>> \o r.v)))


\* { price: 10, qty: 2, total() {...}, twice() {...}, items: <one of the variants> }
RootObject == PlainObject(<<"price", "qty", "total", "twice", "items">>,
                          <<Num(10), Num(2), Fn(1), Fn(2), Ref(2)>>)

Variants == {"numbers", "objects", "nested"}

\* { price: 10, qty: 2, total() {...}, guarded() {...} }
GuardedObject == PlainObject(<<"price", "qty", "total", "guarded">>,
                             <<Num(10), Num(2), Fn(1), Fn(3)>>)

\* { price: 10, qty: 2, items: [1, 2], writer() {...}, pusher() {...} }
WriterObject == PlainObject(<<"price", "qty", "items", "writer", "pusher">>,
                            <<Num(10), Num(2), Ref(2), Fn(7), Fn(8)>>)

\* { writer() {...}, price: 10, qty: 2 }
EarlyWriterObject == PlainObject(<<"writer", "price", "qty">>, <<Fn(7), Num(10), Num(2)>>)

\* { price: 10, qty: 2, nesting() {...} }
NestingObject == PlainObject(<<"price", "qty", "nesting">>, <<Num(10), Num(2), Fn(5)>>)

\* { price: 10, nested: { n: 1 }, none: null, undef: undefined, items: [{ n: 2 }] }
ShapeObject == PlainObject(<<"price", "nested", "none", "undef", "items">>,
                           <<Num(10), Ref(2), Null, Undefined, Ref(3)>>)

\* { items: [1, 2], price: 10, qty: 2, total() {...}, twice() {...}, count() {...},
\*   guarded() {...} }
CountedObject == PlainObject(<<"items", "price", "qty", "total", "twice", "count", "guarded">>,
                             <<Ref(2), Num(10), Num(2), Fn(1), Fn(2), Fn(4), Fn(3)>>)

\* the heap holding the literal passed to observe (and, in the variant "shape",
\* an instance of a class)
InitialObjects(variant) ==
  CASE variant = "numbers" -> <<RootObject, ArrayObject(<<Num(1), Num(2)>>)>>
    [] variant = "objects" -> <<RootObject, ArrayObject(<<Ref(3), Ref(4)>>),
                                PlainObject(<<"n">>, <<Num(1)>>), PlainObject(<<"n">>, <<Num(2)>>)>>
    [] variant = "nested" -> <<RootObject, ArrayObject(<<Ref(3), Num(2)>>), ArrayObject(<<Num(1)>>)>>
    [] variant = "guarded" -> <<GuardedObject>>
    [] variant = "untaken" -> <<[GuardedObject EXCEPT !.elems[1] = DataProp(Num(1))]>>
    [] variant = "nesting" -> <<NestingObject>>
    [] variant = "writer" -> <<WriterObject, ArrayObject(<<Num(1), Num(2)>>)>>
    [] variant = "early" -> <<EarlyWriterObject>>
    [] variant = "counted" -> <<CountedObject, ArrayObject(<<Num(1), Num(2)>>)>>
    [] variant = "shape" -> <<ShapeObject, PlainObject(<<"n">>, <<Num(1)>>), ArrayObject(<<Ref(4)>>),
                              PlainObject(<<"n">>, <<Num(2)>>), ClassInstance(<<"n">>, <<Num(1)>>)>>

\* the world after the modules are loaded and observe(data) has returned
Observed(variant, mode) ==
  observe([objs |-> InitialObjects(variant), obsv |-> <<>>, mode |-> mode, queue |-> <<>>,
           marker |-> 0, calls |-> <<>>, upd |-> <<>>, trace |-> <<>>, evals |-> <<>>,
           replays |-> <<>>, log |-> <<>>, exc |-> NoError], Root)

InitWorld(w) ==
  /\ objs = w.objs
  /\ obsv = w.obsv
  /\ reactivityState = w.mode
  /\ reactivityActionQueue = w.queue
  /\ currentEvaluatingObservable = w.marker
  /\ op = NoOp
  /\ exc = NoError
  /\ ret = <<>>
  /\ calls = <<>>
  /\ upd = <<>>
  /\ trace = <<>>
  /\ evals = w.evals
  /\ replays = <<>>
  /\ log = <<>>
  /\ watching = {}
  /\ removed = {}
  /\ nops = 0

(***************************************************************************)
(* The calls a client makes.                                               *)
(***************************************************************************)
\* the member expression state.a.b...: a [[Get]] per segment
RECURSIVE GetPath(_, _, _)
GetPath(w, v, path) ==
  IF path = <<>> THEN WithV(w, v)
  ELSE Bind(Get(w, v.n, KeyOf(w, v.n, Head(path))),
            LAMBDA g : GetPath(g.w, g.v, Tail(path)))

\* state.<path> = <lit>
WriteField(path, lit) ==
  /\ RawAt(World, Root, path) # Absent
  /\ Bind(GetPath(World, Root, Parent(path)),
          LAMBDA parent :
            Bind(Alloc(parent.w, lit),
                 LAMBDA a :
                   Leave(Set(a.w, parent.v.n, KeyOf(World, parent.v.n, Last(path)), a.v),
                         Op("write", path, "", <<a.v>>, RawAt(World, Root, path)), <<>>)))
  /\ UNCHANGED <<watching, removed>>

\* state.<path>.<method>(<lits>)
CallMethod(path, method, lits) ==
  LET array == RawAt(World, Root, path)
  IN /\ array # Absent
     /\ IsRef(array)
     /\ objs[array.n].isArray
     /\ method = "sort" =>
          \/ \A i \in 1..Len(ArrayValues(World, array.n)) : IsNum(ArrayValues(World, array.n)[i])
          \/ \A i \in 1..Len(ArrayValues(World, array.n)) : IsRef(ArrayValues(World, array.n)[i])
     /\ Bind(AllocAll(GetPath(World, Root, path).w, lits),
             LAMBDA a :
               Bind(IF objs[array.n].augmented
                      THEN mutator(a.w, method, array.n, a.v)
                      ELSE original(a.w, method, array.n, a.v),
                    LAMBDA r : Leave(r.w, Op("call", path, method, a.v, array), r.v)))
     /\ UNCHANGED <<watching, removed>>

\* state.<path> = state.<from>: the value written is one the state holds already
CopyField(path, from) ==
  /\ RawAt(World, Root, path) # Absent
  /\ RawAt(World, Root, from) # Absent
  /\ Bind(GetPath(World, Root, Parent(path)),
          LAMBDA parent :
            Bind(GetPath(parent.w, Root, from),
                 LAMBDA a :
                   Leave(Set(a.w, parent.v.n, KeyOf(World, parent.v.n, Last(path)), a.v),
                         Op("write", path, "", <<a.v>>, RawAt(World, Root, path)), <<>>)))
  /\ UNCHANGED <<watching, removed>>

\* addPropertyWatcher(state, path, fn)
AddWatcher(path, fn) ==
  /\ Bind(addPropertyWatcher(World, Root, path, fn),
          LAMBDA r : Leave(r.w, Op("addWatcher", path, fn, <<>>, Undefined), r.v))
  /\ watching' = IF exc' = NoError
                   THEN watching \cup {[path |-> path, fn |-> fn, o |-> PropAt(World, Root, path).o]}
                   ELSE watching
  /\ removed' = IF exc' = NoError THEN removed \ {[path |-> path, fn |-> fn]} ELSE removed

\* removePropertyWatcher(state, path, fn)
RemoveWatcher(path, fn) ==
  /\ Leave(removePropertyWatcher(World, Root, path, fn),
           Op("removeWatcher", path, fn, <<>>, Undefined), <<>>)
  /\ watching' = IF exc' = NoError
                   THEN {e \in watching : ~(e.path = path /\ e.fn = fn)}
                   ELSE watching
  /\ removed' = IF exc' = NoError THEN removed \cup {[path |-> path, fn |-> fn]} ELSE removed

\* observe(x)
Observe(x) ==
  /\ Bind(observe(World, x),
          LAMBDA w1 : Leave(w1, Op("observe", <<>>, "", <<x>>, Undefined),
                            IF Ok(w1) THEN <<x>> ELSE <<>>))
  /\ UNCHANGED <<watching, removed>>

\* navigateToPropertyPath(state, path, cb): ret lists the arguments of the calls of cb
Resolve(path) ==
  /\ Bind(navigateToPropertyPath(World, Root, path, 1),
          LAMBDA r : Leave(r.w, Op("resolve", path, "", <<>>, Undefined),
                           IF Ok(r.w) THEN <<r.v>> ELSE <<>>))
  /\ UNCHANGED <<watching, removed>>

\* state.<path>.<k> = 1 for a key k the object at the path does not have
AddField(path, k) ==
  /\ RawAt(World, Root, path) # Absent
  /\ IsRef(RawAt(World, Root, path))
  /\ ~objs[RawAt(World, Root, path).n].isArray
  /\ ~HasOwnProperty(objs[RawAt(World, Root, path).n], k)
  /\ Bind(GetPath(World, Root, path),
          LAMBDA target : Leave(Set(target.w, target.v.n, k, Num(1)),
                                Op("addField", path, k, <<Num(1)>>, Undefined), <<>>))
  /\ UNCHANGED <<watching, removed>>

\* delete state.<path>
DeleteField(path) ==
  /\ RawAt(World, Root, path) # Absent
  /\ Bind(GetPath(World, Root, Parent(path)),
          LAMBDA parent : Leave(DeleteProperty(parent.w, parent.v.n, KeyOf(World, parent.v.n, Last(path))),
                                Op("deleteField", path, "", <<>>, RawAt(World, Root, path)), <<>>))
  /\ UNCHANGED <<watching, removed>>

\* setReactivityState(state)
SetMode(state) ==
  /\ Leave(setReactivityState(World, state), Op("setReactivityState", <<>>, "", <<Num(state)>>, Undefined), <<>>)
  /\ UNCHANGED <<watching, removed>>

\* processReactivityQueue()
ProcessQueue ==
  /\ Leave(processReactivityQueue(World), Op("processReactivityQueue", <<>>, "", <<>>, Undefined), <<>>)
  /\ UNCHANGED <<watching, removed>>

\* purgeReactivityQueue()
PurgeQueue ==
  /\ Leave(purgeReactivityQueue(World), Op("purgeReactivityQueue", <<>>, "", <<>>, Undefined), <<>>)
  /\ UNCHANGED <<watching, removed>>


(***************************************************************************)
(* Spec: a client that writes the fields of the observed object, watches   *)
(* them and switches the reactivity state.                                 *)
(***************************************************************************)
Watchers == {"w1", "w2"}
Numbers == {5} \cup (1..MaxNum)

FieldPaths == {<<"price">>, <<"qty">>}
WatchPaths == {<<"price">>, <<"total">>}

Init == InitWorld(Observed("numbers", Enabled))

Next ==
  \/ \E path \in FieldPaths, n \in Numbers : nops < MaxOps /\ WriteField(path, LNum(n))
  \/ \E path \in WatchPaths, fn \in Watchers : nops < MaxOps /\ AddWatcher(path, fn)
  \/ \E path \in WatchPaths, fn \in Watchers : nops < MaxOps /\ RemoveWatcher(path, fn)
  \/ \E state \in ReactivityState : nops < MaxOps /\ SetMode(state)
  \/ nops < MaxOps /\ ProcessQueue
  \/ nops < MaxOps /\ PurgeQueue

Spec == Init /\ [][Next]_vars

(***************************************************************************)
(* SpecSeq: a client that works on the observed sequence state.items.      *)
(***************************************************************************)
Items == <<"items">>
SeqWrites ==
  {[path |-> <<"items", "0">>, lit |-> LNum(n)] : n \in 1..MaxNum}
    \cup {[path |-> <<"items", "0">>, lit |-> LObj(1)],
          [path |-> <<"items", "0", "0">>, lit |-> LNum(2)],
          [path |-> <<"items", "0", "n">>, lit |-> LNum(2)]}

SeqCalls ==
  {[path |-> Items, method |-> "push", lits |-> <<LArr(<<1>>)>>],
   [path |-> Items, method |-> "pop", lits |-> <<>>],
   [path |-> Items, method |-> "shift", lits |-> <<>>],
   [path |-> Items, method |-> "unshift", lits |-> <<LNum(1)>>],
   [path |-> Items, method |-> "splice", lits |-> <<LNum(0), LNum(0)>>],
   [path |-> Items, method |-> "splice", lits |-> <<LNum(0), LNum(5), LNum(1), LNum(1)>>],
   [path |-> Items, method |-> "sort", lits |-> <<>>],
   [path |-> Items, method |-> "reverse", lits |-> <<>>],
   [path |-> <<"items", "0">>, method |-> "push", lits |-> <<LNum(1)>>],
   [path |-> <<"items", "2">>, method |-> "push", lits |-> <<LNum(1)>>]}

SeqWatchPaths == {<<"items", "0">>, <<"items">>}

InitSeq == \E variant \in Variants : InitWorld(Observed(variant, Enabled))

NextSeq ==
  \/ \E c \in SeqWrites : nops < MaxOps /\ WriteField(c.path, c.lit)
  \/ \E c \in SeqCalls : nops < MaxOps /\ CallMethod(c.path, c.method, c.lits)
  \/ \E path \in SeqWatchPaths : nops < MaxOps /\ AddWatcher(path, "w1")
  \/ \E state \in ReactivityState : nops < MaxOps /\ SetMode(state)
  \/ nops < MaxOps /\ ProcessQueue
  \/ nops < MaxOps /\ PurgeQueue

SpecSeq == InitSeq /\ [][NextSeq]_vars

(***************************************************************************)
(* SpecMode: a client that calls setReactivityState with arbitrary         *)
(* arguments (the three states, numbers out of range and strings) and      *)
(* writes a field.                                                         *)
(***************************************************************************)
ModeArguments ==
  ReactivityState \cup ((Enabled + 1)..(Len(IndexNames) - 1))
    \cup {Str(ModeStrings[i]) : i \in DOMAIN ModeStrings}

NextMode ==
  \/ \E state \in ModeArguments : nops < MaxOps /\ SetMode(state)
  \/ \E n \in Numbers : nops < MaxOps /\ WriteField(<<"price">>, LNum(n))
  \/ nops < MaxOps /\ ProcessQueue

SpecMode == Init /\ [][NextMode]_vars

(***************************************************************************)
(* SpecObservable: a client that calls the methods watch, unwatch, observe *)
(* and unobserve of the Observables of price and total directly, and       *)
(* writes price.  The call is recorded with the index the entry had in the *)
(* list before the call (-1: none).  The client does not make a            *)
(* ComputedObservable a dependent of itself.                               *)
(***************************************************************************)
CallWatch(o, fn) ==
  /\ Leave(watch(World, o, fn),
           Op("watch", <<>>, fn, <<Num(IndexOf(obsv[o].watchers, fn))>>, Obs(o)), <<>>)
  /\ UNCHANGED <<watching, removed>>

CallUnwatch(o, fn) ==
  /\ Leave(unwatch(World, o, fn),
           Op("unwatch", <<>>, fn, <<Num(IndexOf(obsv[o].watchers, fn))>>, Obs(o)), <<>>)
  /\ UNCHANGED <<watching, removed>>

CallObserve(o, c) ==
  /\ Leave(ObservableObserve(World, o, c),
           Op("observe", <<>>, "", <<Num(IndexOf(obsv[o].observers, c)), Num(c)>>, Obs(o)), <<>>)
  /\ UNCHANGED <<watching, removed>>

CallUnobserve(o, c) ==
  /\ Leave(ObservableUnobserve(World, o, c),
           Op("unobserve", <<>>, "", <<Num(IndexOf(obsv[o].observers, c)), Num(c)>>, Obs(o)), <<>>)
  /\ UNCHANGED <<watching, removed>>

\* the Observables of the fields price and total of the observed object, and
\* the ComputedObservables of total and guarded
Observables == {PropAt(World, Root, <<"price">>).o, PropAt(World, Root, <<"total">>).o}
Computeds == {PropAt(World, Root, <<"total">>).o, PropAt(World, Root, <<"guarded">>).o}

InitObservable == InitWorld(Observed("guarded", Enabled))

NextObservable ==
  \/ \E o \in Observables, fn \in Watchers : nops < MaxOps /\ CallWatch(o, fn)
  \/ \E o \in Observables, fn \in Watchers : nops < MaxOps /\ CallUnwatch(o, fn)
  \/ \E o \in Observables : \E c \in Computeds \ {o} : nops < MaxOps /\ CallObserve(o, c)
  \/ \E o \in Observables : \E c \in Computeds \ {o} : nops < MaxOps /\ CallUnobserve(o, c)
  \/ \E n \in Numbers : nops < MaxOps /\ WriteField(<<"price">>, LNum(n))

SpecObservable == InitObservable /\ [][NextObservable]_vars

(***************************************************************************)
(* SpecQueue: a client that works on the observed data under Lazy and      *)
(* drains or purges the queue.                                             *)
(***************************************************************************)
QueueWrites ==
  {[path |-> <<"price">>, lit |-> LNum(n)] : n \in Numbers}
    \cup {[path |-> <<"items", "0">>, lit |-> LNum(n)] : n \in 1..MaxNum}

QueueCalls ==
  {[method |-> "push", lits |-> <<LNum(1)>>],
   [method |-> "pop", lits |-> <<>>],
   [method |-> "reverse", lits |-> <<>>]}

InitQueue == \E variant \in Variants : InitWorld(Observed(variant, Lazy))

NextQueue ==
  \/ \E c \in QueueWrites : nops < MaxOps /\ WriteField(c.path, c.lit)
  \/ \E c \in QueueCalls : nops < MaxOps /\ CallMethod(Items, c.method, c.lits)
  \/ \E path \in WatchPaths \cup {Items} : nops < MaxOps /\ AddWatcher(path, "w1")
  \/ \E state \in ReactivityState : nops < MaxOps /\ SetMode(state)
  \/ nops < MaxOps /\ ProcessQueue
  \/ nops < MaxOps /\ PurgeQueue

SpecQueue == InitQueue /\ [][NextQueue]_vars

(***************************************************************************)
(* SpecWatch: a client that adds and removes a watcher of the first        *)
(* element of state.items while the sequence is being worked on.           *)
(***************************************************************************)
MaxWatchOps == 4

First == <<"items", "0">>

WatchCalls ==
  {[method |-> "push", lits |-> <<LNum(1)>>],
   [method |-> "unshift", lits |-> <<LNum(MaxNum)>>],
   [method |-> "splice", lits |-> <<LNum(0), LNum(0)>>],
   [method |-> "sort", lits |-> <<>>],
   [method |-> "reverse", lits |-> <<>>]}

NextWatch ==
  \/ \E n \in 1..MaxNum : nops < MaxWatchOps /\ WriteField(First, LNum(n))
  \/ nops < MaxWatchOps /\ WriteField(Items, LArr(<<1, 2>>))
  \/ \E c \in WatchCalls : nops < MaxWatchOps /\ CallMethod(Items, c.method, c.lits)
  \/ nops < MaxWatchOps /\ AddWatcher(First, "w1")
  \/ nops < MaxWatchOps /\ RemoveWatcher(First, "w1")

SpecWatch == Init /\ [][NextWatch]_vars

(***************************************************************************)
(* SpecComputed: a client of an observed object with a computed field      *)
(* whose function can throw, and with a watcher that throws.  observe is   *)
(* called in any of the reactivity states.                                 *)
(***************************************************************************)
ComputedWatchers == {"w1", ThrowingWatcher}
ComputedWatchPaths == {<<"price">>, <<"total">>, <<"guarded">>}

InitComputed == \E state \in ReactivityState : InitWorld(Observed("guarded", state))

NextComputed ==
  \/ \E path \in FieldPaths, n \in Numbers : nops < MaxOps /\ WriteField(path, LNum(n))
  \/ \E path \in ComputedWatchPaths, fn \in ComputedWatchers : nops < MaxOps /\ AddWatcher(path, fn)
  \/ \E state \in ReactivityState : nops < MaxOps /\ SetMode(state)
  \/ nops < MaxOps /\ ProcessQueue

SpecComputed == InitComputed /\ [][NextComputed]_vars

(***************************************************************************)
(* SpecAccess: a client that assigns to every field of the observed        *)
(* object, the computed ones included, in every reactivity state.          *)
(***************************************************************************)
ComputedPaths == {<<"total">>, <<"guarded">>}

NextAccess ==
  \/ \E path \in FieldPaths, n \in Numbers : nops < MaxOps /\ WriteField(path, LNum(n))
  \/ \E path \in ComputedPaths, n \in Numbers : nops < MaxOps /\ WriteField(path, LNum(n))
  \/ \E path \in ComputedWatchPaths : nops < MaxOps /\ AddWatcher(path, "w1")
  \/ \E state \in ReactivityState : nops < MaxOps /\ SetMode(state)
  \/ nops < MaxOps /\ ProcessQueue

SpecAccess == InitComputed /\ [][NextAccess]_vars

(***************************************************************************)
(* SpecCascade: a client of an observed object whose computed fields read  *)
(* fields, another computed field and a sequence; it writes the fields,    *)
(* calls the wrapped methods of the sequence and watches the fields.       *)
(***************************************************************************)
CascadeCalls == {<<"push", <<LNum(1)>>>>, <<"pop", <<>>>>, <<"reverse", <<>>>>}
CascadeWatchPaths == {<<"price">>, <<"total">>, <<"twice">>, <<"count">>}

InitCascade == InitWorld(Observed("counted", Enabled))

NextCascade ==
  \/ \E path \in FieldPaths, n \in 1..MaxNum : nops < MaxOps /\ WriteField(path, LNum(n))
  \/ nops < MaxOps /\ WriteField(<<"items">>, LArr(<<1>>))
  \/ \E c \in CascadeCalls : nops < MaxOps /\ CallMethod(<<"items">>, c[1], c[2])
  \/ \E path \in CascadeWatchPaths, fn \in Watchers : nops < MaxOps /\ AddWatcher(path, fn)
  \/ \E state \in {Lazy, Enabled} : nops < MaxOps /\ SetMode(state)
  \/ nops < MaxOps /\ ProcessQueue

SpecCascade == InitCascade /\ [][NextCascade]_vars

(***************************************************************************)
(* SpecNotify: a client one of whose watchers removes itself from the      *)
(* Observable that calls it.                                               *)
(***************************************************************************)
SelfRemovingWatchers == Watchers \cup {UnwatchingWatcher}

NextNotify ==
  \/ \E path \in FieldPaths, n \in Numbers : nops < MaxOps /\ WriteField(path, LNum(n))
  \/ \E path \in WatchPaths, fn \in SelfRemovingWatchers : nops < MaxOps /\ AddWatcher(path, fn)
  \/ \E path \in WatchPaths, fn \in SelfRemovingWatchers : nops < MaxOps /\ RemoveWatcher(path, fn)

SpecNotify == InitObservable /\ [][NextNotify]_vars

(***************************************************************************)
(* SpecBranch: a client of { price: 1, qty: 2, total() {...}, guarded()    *)
(* {...} }: when the object is observed, guarded throws before it reads    *)
(* qty.                                                                    *)
(***************************************************************************)
InitBranch == InitWorld(Observed("untaken", Enabled))

NextBranch ==
  \/ \E path \in FieldPaths, n \in Numbers : nops < MaxOps /\ WriteField(path, LNum(n))
  \/ \E path \in ComputedWatchPaths : nops < MaxOps /\ AddWatcher(path, "w1")

SpecBranch == InitBranch /\ [][NextBranch]_vars

(***************************************************************************)
(* SpecNested: a client of { price: 10, qty: 2, nesting() {...} }, whose   *)
(* computed function observes another object literal with a computed field *)
(* between its reads of price and of qty.                                  *)
(***************************************************************************)
InitNested == InitWorld(Observed("nesting", Enabled))

NextNested ==
  \/ \E path \in FieldPaths, n \in Numbers : nops < MaxOps /\ WriteField(path, LNum(n))
  \/ \E path \in FieldPaths \cup {<<"nesting">>} : nops < MaxOps /\ AddWatcher(path, "w1")

SpecNested == InitNested /\ [][NextNested]_vars

(***************************************************************************)
(* SpecShape: a client that observes an object literal and then replaces   *)
(* field values and sequence elements by new objects and tries to add and  *)
(* to delete fields.                                                       *)
(***************************************************************************)
\* the world after the modules are loaded, before observe is called
Loaded(variant) ==
  [objs |-> InitialObjects(variant), obsv |-> <<>>, mode |-> Enabled, queue |-> <<>>,
   marker |-> 0, calls |-> <<>>, upd |-> <<>>, trace |-> <<>>, evals |-> <<>>,
   replays |-> <<>>, log |-> <<>>, exc |-> NoError]

RootObserved == objs[Root.n].sealed

ShapeWrites == {<<"nested">>, <<"items", "0">>}
ShapeCalls == {<<"push", <<LObj(9)>>>>,
               <<"splice", <<LNum(0), LNum(0), LObj(9)>>>>,
               <<"splice", <<LNum(1), LNum(3), LObj(9)>>>>}
ShapeObjects == {<<>>, <<"nested">>, <<"items", "0">>, <<"items", "1">>}
ShapeFields == {<<"price">>, <<"nested", "n">>, <<"items", "0", "n">>, <<"items", "1", "n">>}

InitShape == InitWorld(Loaded("shape"))

NextShape ==
  \/ nops < MaxOps /\ ~RootObserved /\ Observe(Root)
  \/ \E path \in ShapeWrites : nops < MaxOps /\ RootObserved /\ WriteField(path, LObj(5))
  \/ \E c \in ShapeCalls : nops < MaxOps /\ RootObserved /\ CallMethod(<<"items">>, c[1], c[2])
  \/ \E path \in ShapeObjects : nops < MaxOps /\ RootObserved /\ AddField(path, "extra")
  \/ \E path \in ShapeFields : nops < MaxOps /\ RootObserved /\ DeleteField(path)
  \/ \E state \in {Lazy, Enabled} : nops < MaxOps /\ RootObserved /\ SetMode(state)
  \/ nops < MaxOps /\ RootObserved /\ ProcessQueue

SpecShape == InitShape /\ [][NextShape]_vars

(***************************************************************************)
(* SpecPaths: a client that calls observe with every kind of value and     *)
(* resolves paths, present and absent, in the object literal, before and   *)
(* after the literal is observed.                                          *)
(***************************************************************************)
\* 1, undefined, null, a function, the array items, an instance of a class
NotPlainArguments == {Num(1), Undefined, Null, Fn(1), Ref(3), Ref(5)}
ObserveArguments == NotPlainArguments \cup {Root}

PresentPaths == {<<"price">>, <<"nested", "n">>, <<"items", "0", "n">>, <<"items", "length">>}
AbsentPaths == {<<"missing">>, <<"nested", "missing">>, <<"missing", "n">>, <<"price", "n">>,
                <<"none", "n">>, <<"undef", "n">>}
WatchedPaths == {<<"price">>, <<"items", "0">>, <<"items", "length">>, <<"missing">>}

NextPaths ==
  \/ \E x \in ObserveArguments : nops < MaxOps /\ Observe(x)
  \/ \E path \in PresentPaths \cup AbsentPaths : nops < MaxOps /\ Resolve(path)
  \/ \E path \in WatchedPaths : nops < MaxOps /\ AddWatcher(path, "w1")
  \/ \E path \in WatchedPaths : nops < MaxOps /\ RemoveWatcher(path, "w1")

SpecPaths == InitShape /\ [][NextPaths]_vars

(***************************************************************************)
(* store/store.ts.  The store of the model is                              *)
(*   const store = new Store({ state, mutations, actions })                *)
(* with the state { price, qty, total(), twice(), items } and the bodies   *)
(* below, written as lists of statements on the context and the payload.   *)
(***************************************************************************)
StoreThis == [t |-> "store", n |-> 1]
\* the object { state, commit: this.$commit, dispatch: this.$dispatch } handed to
\* a mutation or an action: it has no $mutations and no $actions
ContextThis == [t |-> "context", n |-> 0]

\* state.<path> = payload
Assign(path) == [k |-> "assign", path |-> path, name |-> ""]
\* store.$commit(name, payload)
StoreCommit(name) == [k |-> "store.$commit", path |-> <<>>, name |-> name]
\* commit(name, payload), with commit taken from the context
ContextCommit(name) == [k |-> "commit", path |-> <<>>, name |-> name]
\* ctx.commit(name, payload)
CtxCommit(name) == [k |-> "ctx.commit", path |-> <<>>, name |-> name]
\* dispatch(name, payload), with dispatch taken from the context
ContextDispatch(name) == [k |-> "dispatch", path |-> <<>>, name |-> name]
\* throw new Error()
ThrowError == [k |-> "throw", path |-> <<>>, name |-> ""]

MutationNames == {"setPrice", "setQty", "doSomethingAndCommit", "setBoth", "failing"}

mutations(name) ==
  CASE name = "setPrice" -> <<Assign(<<"price">>)>>
    [] name = "setQty" -> <<Assign(<<"qty">>)>>
    [] name = "doSomethingAndCommit" -> <<ContextCommit("setQty")>>
    [] name = "setBoth" -> <<StoreCommit("setPrice"), Assign(<<"qty">>)>>
    [] name = "failing" -> <<Assign(<<"price">>), ThrowError>>

ActionNames == {"invalidAction", "setTotal", "changePrice", "save", "chain"}

actions(name) ==
  CASE name = "invalidAction" -> <<Assign(<<"price">>)>>
    [] name = "setTotal" -> <<ContextCommit("setPrice")>>
    [] name = "changePrice" -> <<CtxCommit("setPrice")>>
    [] name = "save" -> <<StoreCommit("setPrice")>>
    [] name = "chain" -> <<ContextDispatch("save")>>

RECURSIVE RunBody(_, _, _, _, _)
RECURSIVE commit(_, _, _, _)
RECURSIVE dispatch(_, _, _, _)

\* storeOperation.call(undefined, context, payload): the statements of the
\* body from the i-th on.  A statement of a mutation notes the reactivity
\* state it is run in.
RunBody(w, fn, body, i, payload) ==
  IF ~Ok(w) \/ i > Len(body) THEN w
  ELSE LET s == body[i]
           w0 == IF fn \in MutationNames
                   THEN [w EXCEPT !.trace = Append(@, [fn |-> fn, stmt |-> i, mode |-> w.mode])]
                   ELSE w
       IN RunBody(CASE s.k = "assign" ->
                         Bind(GetPath(w0, Root, Parent(s.path)),
                              LAMBDA parent :
                                Set(parent.w, parent.v.n,
                                    KeyOf(parent.w, parent.v.n, Last(s.path)), payload))
                    [] s.k = "store.$commit" -> commit(w0, StoreThis, s.name, payload)
                    [] s.k = "commit" -> commit(w0, Undefined, s.name, payload)
                    [] s.k = "ctx.commit" -> commit(w0, ContextThis, s.name, payload)
                    [] s.k = "dispatch" -> dispatch(w0, Undefined, s.name, payload)
                    [] s.k = "throw" -> Throw(w0, MutationError),
                  fn, body, i + 1, payload)

\* $commit that leaves the reactivity state as the mutation left it
commit_NoFinally(w, this, mutation, payload) ==
  IF this # StoreThis THEN Throw(w, TypeError)
  ELSE IF mutation \notin MutationNames THEN w
  ELSE RunBody(setReactivityState(w, Enabled), mutation, mutations(mutation), 1, payload)

\* Store.$commit (store.ts 385-409); this.$mutations[mutation] is a TypeError
\* when this is undefined and when this is the context
commit(w, this, mutation, payload) ==
  IF this # StoreThis THEN Throw(w, TypeError)
  ELSE IF mutation \notin MutationNames THEN w
  ELSE Bind(RunBody(setReactivityState(w, Enabled), mutation, mutations(mutation), 1, payload),
            LAMBDA w1 : Throw(setReactivityState(w1, Disabled), w1.exc))

\* Store.$dispatch (store.ts 419-434)
dispatch(w, this, action, payload) ==
  IF this # StoreThis THEN Throw(w, TypeError)
  ELSE IF action \notin ActionNames THEN w
  ELSE RunBody(w, action, actions(action), 1, payload)

\* the world after store.ts is loaded (which sets Disabled, store.ts 14) and
\* new Store(options) has observed options.state (store.ts 316-320)
NewStore ==
  observe(setReactivityState(
            [objs |-> InitialObjects("numbers"), obsv |-> <<>>, mode |-> Enabled, queue |-> <<>>,
             marker |-> 0, calls |-> <<>>, upd |-> <<>>, trace |-> <<>>, evals |-> <<>>,
           replays |-> <<>>, log |-> <<>>, exc |-> NoError],
            Disabled),
          Root)

\* store.$commit(mutation, payload)
Commit(mutation, payload) ==
  /\ Leave(commit(World, StoreThis, mutation, payload),
           Op("$commit", <<>>, mutation, <<payload>>, Undefined), <<Undefined>>)
  /\ UNCHANGED <<watching, removed>>

\* store.$dispatch(action, payload)
Dispatch(action, payload) ==
  /\ Leave(dispatch(World, StoreThis, action, payload),
           Op("$dispatch", <<>>, action, <<payload>>, Undefined), <<Undefined>>)
  /\ UNCHANGED <<watching, removed>>

(***************************************************************************)
(* SpecStore: a client of the store.  It commits, dispatches, watches and  *)
(* assigns to store.$state directly.                                       *)
(***************************************************************************)
InitStore == InitWorld(NewStore)

NextStore ==
  \/ \E m \in MutationNames \cup {"missing"}, n \in Numbers : nops < MaxOps /\ Commit(m, Num(n))
  \/ \E a \in ActionNames \cup {"missing"}, n \in Numbers : nops < MaxOps /\ Dispatch(a, Num(n))
  \/ \E path \in FieldPaths, n \in Numbers : nops < MaxOps /\ WriteField(path, LNum(n))
  \/ \E path \in WatchPaths : nops < MaxOps /\ AddWatcher(path, "w1")
  \/ \E path \in WatchPaths : nops < MaxOps /\ RemoveWatcher(path, "w1")

SpecStore == InitStore /\ [][NextStore]_vars

(***************************************************************************)
(* SpecStoreMode: a client of the store that also sets the reactivity      *)
(* state itself (setReactivityState is exported by the observer module).   *)
(***************************************************************************)
NextStoreMode ==
  \/ \E m \in MutationNames \cup {"missing"}, n \in Numbers : nops < MaxOps /\ Commit(m, Num(n))
  \/ \E state \in ReactivityState : nops < MaxOps /\ SetMode(state)
  \/ \E path \in FieldPaths, n \in Numbers : nops < MaxOps /\ WriteField(path, LNum(n))

SpecStoreMode == InitStore /\ [][NextStoreMode]_vars

(***************************************************************************)
(* The properties.                                                         *)
(***************************************************************************)
Range(s) == {s[i] : i \in DOMAIN s}

\* the Observables that back the field at a path, outermost first
FieldObservables(path) == Layers(World, PropAt(World, Root, path).o)

Value(path) == RawAt(World, Root, path)

\* how often the last call ran Observable.update on o
UpdatesOf(o) == Cardinality({i \in DOMAIN upd : upd[i].o = o})

\* how often the last call made Observable o call the watcher fn
CallsBy(o, fn) == Cardinality({i \in DOMAIN calls : calls[i].o = o /\ calls[i].fn = fn})

\* how often the last call called the watcher fn
CallsOf(fn) == Cardinality({i \in DOMAIN calls : calls[i].fn = fn})

EnabledWriteReturned == op.name = "write" /\ op.mode = Enabled /\ exc = NoError

C2_NotifiesOncePerChange ==
  EnabledWriteReturned =>
    IF op.args[1] = op.old
      THEN calls = <<>> /\ upd = <<>>
      ELSE \A o \in Range(FieldObservables(op.path)) :
             /\ UpdatesOf(o) = 1
             /\ \A fn \in Range(obsv[o].watchers) :
                  /\ CallsBy(o, fn) = 1
                  /\ \E i \in DOMAIN calls :
                       calls[i] = [fn |-> fn, o |-> o, value |-> op.args[1], oldValue |-> op.old]

\* a watched field has been written twice with the same value: the second
\* write (the one just made) notified nobody
C2_Witness ==
  /\ EnabledWriteReturned
  /\ op.args[1] = op.old
  /\ op.old # Num(10)
  /\ \E o \in Range(FieldObservables(op.path)) : obsv[o].watchers # <<>>
  /\ calls = <<>>

\* the watcher fn was registered at the path, has not been removed since, and
\* the Observable it was registered on still backs the field at the path
Registered(path, fn) ==
  \E e \in watching :
    e.path = path /\ e.fn = fn /\ e.o \in Range(FieldObservables(path))

\* C3: addWatcher returns the watcher it was given, and a write under Enabled
\* that changes the field at a path calls each watcher registered at that
\* path exactly once, with (new value, previous value).
C3_WatcherCalledOnce ==
  /\ (op.name = "addWatcher" /\ exc = NoError) => ret = <<op.method>>
  /\ (EnabledWriteReturned /\ op.args[1] # op.old) =>
       \A fn \in Watchers :
         Registered(op.path, fn) =>
           /\ CallsOf(fn) = 1
           /\ \E i \in DOMAIN calls :
                calls[i].fn = fn /\ calls[i].value = op.args[1] /\ calls[i].oldValue = op.old

\* C4: a write to the field at a path calls no watcher that removeWatcher
\* has removed from that path (and that has not been added again since).
C4_RemovedWatcherSilent ==
  op.name = "write" =>
    \A e \in removed : e.path = op.path => CallsOf(e.fn) = 0

\* the call o is a write to a reactive field or element, or a call of a
\* wrapped method of a reactive sequence
TargetReactive(o) ==
  IF o.name = "write"
    THEN LET p == PropAt(World, Root, o.path) IN p.o # 0 /\ obsv[p.o].fn = 0
    ELSE o.name = "call" /\ objs[o.old.n].augmented

\* the call left every object, every Observable, the queue and the state as
\* they were and called no watcher
NothingChanged ==
  /\ SubSeq(objs', 1, Len(objs)) = objs
  /\ obsv' = obsv
  /\ reactivityActionQueue' = reactivityActionQueue
  /\ reactivityState' = reactivityState
  /\ calls' = <<>>
  /\ upd' = <<>>

\* C5: under Disabled a write to a reactive field or element and a call of
\* each wrapped sequence method throw REACTIVITY_DISABLED_EXCEPTION and leave
\* the values, the sequence, the queue and the state unchanged; no watcher is
\* called.
C5_DisabledRejects ==
  [][(op'.name \in {"write", "call"} /\ reactivityState = Disabled /\ TargetReactive(op'))
       => (exc' = REACTIVITY_DISABLED_EXCEPTION /\ NothingChanged)]_vars

\* a wrapped splice on a watched sequence was refused under Disabled
C5_Witness ==
  /\ op.name = "call"
  /\ op.method = "splice"
  /\ op.mode = Disabled
  /\ exc = REACTIVITY_DISABLED_EXCEPTION
  /\ \E o \in DOMAIN obsv : obsv[o].watchers # <<>>
  /\ calls = <<>>

\* what the native method makes of a plain array with the given elements
NativeEffect(method, values, args) ==
  LET id == Len(objs) + 1
      w == [World EXCEPT !.objs = Append(@, ArrayObject(values))]
  IN ArrayValues(original(w, method, id, args).w, id)

\* the queue item a deferred call o has to leave
DeferredItem(o) ==
  IF o.name = "write"
    THEN [func |-> "reactiveSetter", closure |-> PropAt(World, Root, o.path).o,
          args |-> o.args, context |-> Undefined]
    ELSE [func |-> o.method, closure |-> 0, args |-> o.args, context |-> o.old]

\* C6: under Lazy a write or a wrapped sequence call returns, changes nothing,
\* calls no watcher and appends one item (function, arguments, receiver) to
\* the queue; processReactivityQueue on a queue holding one such item leaves
\* the field with the written value, or the sequence as the native method
\* makes it, and has called the watchers of the Observable concerned.
C6_LazyDefers ==
  [][/\ (op'.name \in {"write", "call"} /\ reactivityState = Lazy /\ TargetReactive(op'))
          => /\ exc' = NoError
             /\ SubSeq(objs', 1, Len(objs)) = objs
             /\ obsv' = obsv
             /\ reactivityState' = Lazy
             /\ calls' = <<>>
             /\ upd' = <<>>
             /\ reactivityActionQueue' = Append(reactivityActionQueue, DeferredItem(op'))
     /\ (op'.name = "processReactivityQueue" /\ Len(reactivityActionQueue) = 1)
          => LET item == reactivityActionQueue[1]
             IN /\ exc' = NoError
                /\ reactivityActionQueue' = <<>>
                /\ IF item.func = "reactiveSetter"
                     THEN /\ obsv'[Innermost(World, item.closure)].value = item.args[1]
                          /\ obsv[item.closure].value # item.args[1] =>
                               \A fn \in Range(obsv[item.closure].watchers) :
                                 \E i \in DOMAIN calls' :
                                   calls'[i].fn = fn /\ calls'[i].value = item.args[1]
                     ELSE /\ ArrayValues(World', item.context.n)
                               = NativeEffect(item.func, ArrayValues(World, item.context.n), item.args)
                          /\ LET a == objs[item.context.n].attached
                             IN /\ a.t = "obs"
                                /\ \A fn \in Range(obsv[a.n].watchers) :
                                     \E i \in DOMAIN calls' :
                                       calls'[i].fn = fn /\ calls'[i].value = item.context
    ]_vars

\* C7: under Enabled a call of a wrapped sequence method runs update on the
\* Observable attached to the sequence exactly once, with the sequence as the
\* value.
C7_OneUpdatePerCall ==
  (op.name = "call" /\ op.mode = Enabled /\ objs[op.old.n].augmented) =>
    LET a == objs[op.old.n].attached
    IN /\ a.t = "obs"
       /\ UpdatesOf(a.n) = 1
       /\ \E i \in DOMAIN upd : upd[i] = [o |-> a.n, value |-> op.old]

\* the objects reachable from v by own properties
RECURSIVE ReachableFrom(_, _)
ReachableFrom(v, depth) ==
  IF ~IsRef(v) \/ depth = 0 THEN {}
  ELSE {v.n} \cup UNION {ReachableFrom(RawValue(World, v.n, k), depth - 1) : k \in Range(ObjectKeys(objs[v.n]))}

\* every own property is backed by an Observable and an array carries one too
IsReactive(id) ==
  /\ \A k \in Range(ObjectKeys(objs[id])) : GetOwnProperty(objs[id], k).o # 0
  /\ objs[id].isArray => (objs[id].augmented /\ objs[id].attached.t = "obs")

\* C8: when a write or a wrapped sequence call made under Enabled has
\* returned, every object reachable from the state is reactive: each field
\* and element has a backing Observable and each sequence an attached one.
C8_EverythingReactive ==
  (op.name \in {"write", "call"} /\ op.mode = Enabled /\ exc = NoError) =>
    \A id \in ReachableFrom(Root, Len(objs)) : IsReactive(id)

\* the call just made was store.$state.<field> = n, or the dispatch of the
\* action that assigns to state.price
AssignedOutsideCommit(o) ==
  \/ o.name = "write"
  \/ o.name = "$dispatch" /\ o.method = "invalidAction"

\* C9: between the calls of the store API the reactivity state is Disabled,
\* whatever $commit (returning or throwing) and $dispatch calls were made; an
\* assignment to a field of store.$state made directly or by an action throws
\* REACTIVITY_DISABLED_EXCEPTION and leaves the state as it was.
C9_DisabledOutsideCommit ==
  /\ [](reactivityState = Disabled)
  /\ [][AssignedOutsideCommit(op')
          => (exc' = REACTIVITY_DISABLED_EXCEPTION /\ objs' = objs /\ obsv' = obsv /\ calls' = <<>>)]_vars

\* after a mutation changed the price and another one threw, a direct
\* assignment is refused
C9_Witness ==
  /\ op.name = "write"
  /\ exc = REACTIVITY_DISABLED_EXCEPTION
  /\ reactivityState = Disabled
  /\ Value(<<"price">>) # Num(10)
  /\ Value(<<"qty">>) = Num(2)

\* C10: every statement of a mutation run by $commit is run under Enabled,
\* the statements after a nested $commit included.
C10_EnabledDuringMutation ==
  \A i \in DOMAIN trace : trace[i].mode = Enabled

\* the last call was a write under Enabled of a new value to a field
EnabledWriteOfNewValue == op.name = "write" /\ op.mode = Enabled /\ op.args[1] # op.old

\* C15: when a watcher throws while an Observable runs update for a write,
\* the write still returns without an exception, the field holds the new
\* value, every watcher of the Observable has been called once and every
\* dependent ComputedObservable has been evaluated and updated once.
C15_WatcherExceptionContained ==
  (EnabledWriteOfNewValue /\ \E i \in DOMAIN calls : calls[i].fn = ThrowingWatcher) =>
    /\ exc = NoError
    /\ Value(op.path) = op.args[1]
    /\ \A o \in Range(FieldObservables(op.path)) :
         /\ \A fn \in Range(obsv[o].watchers) : CallsBy(o, fn) = 1
         /\ \A c \in Range(obsv[o].observers) :
              /\ \E i \in DOMAIN evals : evals[i].c = c
              /\ UpdatesOf(c) = 1

\* price, watched by the throwing watcher and then by w1, has been written:
\* both were called, in that order, and total was recomputed
C15_Witness ==
  /\ EnabledWriteOfNewValue
  /\ op.path = <<"price">>
  /\ \E i, j \in DOMAIN calls :
       i < j /\ calls[i].fn = ThrowingWatcher /\ calls[j].fn = "w1" /\ calls[i].o = calls[j].o
  /\ Value(<<"total">>) = Times(op.args[1], Value(<<"qty">>))
  /\ exc = NoError

\* C16: every evaluate call runs the computed function under Disabled and
\* leaves the reactivity state it found, whether the function returned or
\* threw; when the function threw, evaluate yields undefined and the call that
\* caused the evaluation does not see the exception.
C16_EvaluateRestoresMode ==
  \A i \in DOMAIN evals :
    /\ evals[i].during = Disabled
    /\ evals[i].after = evals[i].before
    /\ evals[i].threw => (evals[i].v = Undefined /\ exc = NoError)

\* a write under Enabled made the function of guarded throw
C16_Witness ==
  /\ op.name = "write"
  /\ \E i \in DOMAIN evals :
       /\ evals[i].threw
       /\ ~evals[i].construction
       /\ evals[i].before = Enabled
       /\ evals[i].during = Disabled
  /\ reactivityState = Enabled

\* C17: when the evaluation of a computed field that a write caused has
\* thrown, the computed field still holds the value it held before the write.
C17_FailedEvaluationKeepsValue ==
  op.name = "write" =>
    \A i \in DOMAIN evals :
      (evals[i].threw /\ ~evals[i].construction) => obsv[evals[i].c].value = evals[i].prior

\* C18: when a write has caused the evaluation of a computed field, Observable
\* update is not run on the ComputedObservable if the value yielded is the
\* value it holds, and is run once, with the value yielded, if it is another.
C18_ComputedUpdateOnlyOnChange ==
  op.name = "write" =>
    \A i \in DOMAIN evals :
      ~evals[i].construction =>
        IF StrictNotEqual(evals[i].prior, evals[i].v)
          THEN /\ UpdatesOf(evals[i].c) = 1
               /\ \E j \in DOMAIN upd : upd[j] = [o |-> evals[i].c, value |-> evals[i].v]
          ELSE UpdatesOf(evals[i].c) = 0

\* C11: $commit of an existing mutation runs the first statement of the
\* mutation under Enabled, and when it has returned or thrown the reactivity
\* state is the one that was current when $commit was called.
C11_CommitRestoresMode ==
  [][(op'.name = "$commit" /\ op'.method \in MutationNames)
       => (trace'[1].mode = Enabled /\ reactivityState' = reactivityState)]_vars

\* C12: when processReactivityQueue returns it has invoked the items of the
\* queue, each once and in the order of the queue, every one of them under
\* Enabled; the queue is empty and the reactivity state is the one
\* processReactivityQueue was called in.
C12_DrainReplaysInOrder ==
  [][(op'.name = "processReactivityQueue" /\ exc' = NoError)
       => /\ Len(replays') = Len(reactivityActionQueue)
          /\ \A i \in DOMAIN replays' :
               replays'[i].item = reactivityActionQueue[i] /\ replays'[i].mode = Enabled
          /\ reactivityActionQueue' = <<>>
          /\ reactivityState' = reactivityState]_vars

\* a write and a wrapped call deferred under Lazy have been replayed, in that
\* order, and the state is Lazy again
C12_Witness ==
  /\ op.name = "processReactivityQueue"
  /\ op.mode = Lazy
  /\ exc = NoError
  /\ Len(replays) = 2
  /\ replays[1].item.func = "reactiveSetter"
  /\ replays[2].item.func = "push"
  /\ reactivityState = Lazy
  /\ reactivityActionQueue = <<>>

\* C13: purgeReactivityQueue empties the queue, invokes nothing and changes
\* neither the reactivity state nor any object or Observable; a
\* processReactivityQueue called on the empty queue invokes nothing and
\* changes no object and no Observable either.
C13_PurgeDiscards ==
  [][/\ op'.name = "purgeReactivityQueue"
          => /\ reactivityActionQueue' = <<>>
             /\ exc' = NoError
             /\ replays' = <<>> /\ calls' = <<>> /\ upd' = <<>>
             /\ objs' = objs /\ obsv' = obsv
             /\ reactivityState' = reactivityState
     /\ (op'.name = "processReactivityQueue" /\ reactivityActionQueue = <<>>)
          => /\ replays' = <<>> /\ calls' = <<>> /\ upd' = <<>>
             /\ objs' = objs /\ obsv' = obsv
    ]_vars

\* a write of price deferred under Lazy and a deferred push have been purged:
\* the price is still 10
C13_Witness ==
  /\ op.name = "purgeReactivityQueue"
  /\ op.mode = Lazy
  /\ op.queued = 2
  /\ reactivityActionQueue = <<>>
  /\ Value(<<"price">>) = Num(10)
  /\ calls = <<>>

\* C14: the reactivity state is always one of Disabled, Lazy and Enabled, and
\* setReactivityState called with an argument that is none of the three, or
\* that is the current state, leaves the reactivity state as it is.
C14_ModeStaysValid ==
  /\ [](reactivityState \in ReactivityState)
  /\ [][(/\ op'.name = "setReactivityState"
         /\ (op'.args[1].n \notin ReactivityState \/ op'.args[1].n = reactivityState))
          => reactivityState' = reactivityState]_vars

\* what the native method returns when called on the array id, found by
\* calling it on a plain array with the same elements (sort and reverse
\* return the array they were called on)
NativeReturn(method, id, args) ==
  LET copy == Len(objs) + 1
      v == original([World EXCEPT !.objs = Append(@, ArrayObject(ArrayValues(World, id)))],
                    method, copy, args).v
  IN [i \in DOMAIN v |-> IF v[i] = Ref(copy) THEN Ref(id) ELSE v[i]]

\* C19: under Enabled a call of a wrapped method on a reactive sequence
\* returns without an exception what the native method returns, and leaves
\* the sequence with the elements, in the order, that the native method
\* leaves.
C19_WrappedLikeNative ==
  [][(op'.name = "call" /\ reactivityState = Enabled /\ objs[op'.old.n].augmented)
       => /\ exc' = NoError
          /\ ret' = NativeReturn(op'.method, op'.old.n, op'.args)
          /\ ArrayValues(World', op'.old.n)
               = NativeEffect(op'.method, ArrayValues(World, op'.old.n), op'.args)]_vars

NoDuplicates(s) == \A i, j \in DOMAIN s : s[i] = s[j] => i = j

\* the list s without the entry x
Without(s, x) == SelectSeq(s, LAMBDA y : y # x)

\* the list s with the entry x at the end unless s holds x
With(s, x) == IF x \in Range(s) THEN s ELSE Append(s, x)

\* C20: no Observable has an entry twice in its list of watchers or in its
\* list of dependents.  watch and observe append the entry unless the list
\* holds it; unwatch and unobserve take the entry out and leave the other
\* entries in their order, and change nothing when the list does not hold the
\* entry; none of the four throws.  A write calls a watcher of an Observable
\* at most once.
C20_SetLikeMembership ==
  /\ [](\A o \in DOMAIN obsv : NoDuplicates(obsv[o].watchers) /\ NoDuplicates(obsv[o].observers))
  /\ [][/\ op'.name \in {"watch", "unwatch", "observe", "unobserve"} => exc' = NoError
        /\ op'.name = "watch"
             => obsv' = [obsv EXCEPT ![op'.old.n].watchers = With(@, op'.method)]
        /\ op'.name = "unwatch"
             => obsv' = [obsv EXCEPT ![op'.old.n].watchers = Without(@, op'.method)]
        /\ op'.name = "observe"
             => obsv' = [obsv EXCEPT ![op'.old.n].observers = With(@, op'.args[2].n)]
        /\ op'.name = "unobserve"
             => obsv' = [obsv EXCEPT ![op'.old.n].observers = Without(@, op'.args[2].n)]
        /\ op'.name = "write"
             => \A o \in DOMAIN obsv : \A fn \in Watchers : Cardinality({i \in DOMAIN calls' : calls'[i].o = o /\ calls'[i].fn = fn}) <= 1
       ]_vars

\* watch has been called for a watcher that the Observable already held: the
\* list still holds it once
C20_Witness ==
  /\ op.name = "watch"
  /\ op.args[1].n >= 0
  /\ obsv[op.old.n].watchers = <<op.method>>

\* the ComputedObservables
ComputedObservables == {c \in 1..Len(obsv) : obsv[c].fn # 0}

\* C21: in every reactivity state an assignment to a computed field fails, leaves
\* every Observable, every object and the queue as they were and calls no
\* watcher; and whatever the call, the value of a ComputedObservable changes
\* only in a call during which that ComputedObservable was evaluated.
C21_ComputedNotWritable ==
  [][/\ (op'.name = "write" /\ op'.path \in ComputedPaths) =>
          /\ exc' = TypeError
          /\ obsv' = obsv
          /\ objs' = objs
          /\ reactivityActionQueue' = reactivityActionQueue
          /\ reactivityState' = reactivityState
          /\ calls' = <<>>
          /\ upd' = <<>>
     /\ \A c \in ComputedObservables :
          obsv'[c].value # obsv[c].value => \E i \in DOMAIN evals' : evals'[i].c = c]_vars

\* a watched computed field was assigned to in the Lazy state
C21_Witness ==
  /\ op.name = "write"
  /\ op.path = <<"total">>
  /\ op.mode = Lazy
  /\ exc = TypeError
  /\ \E c \in ComputedObservables : obsv[c].fn = 1 /\ obsv[c].watchers # <<>>

\* the keys of the objects that are not sequences and that the state reaches
\* through at most three fields or elements
Aggregates == {id \in ReachableFrom(Root, 4) : ~objs[id].isArray}

\* C22: observe(A) returns A, and once A is observed no call adds a key to or
\* removes a key from A or from an object that is not a sequence and that is
\* the value of a field or of an element below A, whenever it got there.
C22_KeySetFixed ==
  [][/\ (op'.name = "observe" /\ op'.args = <<Root>> /\ exc' = NoError) =>
          (ret' = <<Root>> /\ objs'[Root.n].keys = objs[Root.n].keys)
     /\ RootObserved => \A id \in Aggregates : objs'[id].keys = objs[id].keys]_vars

\* C23: observe(x) fails with the error for a parameter that is not a plain
\* object for a number, undefined, null, a function, a sequence and an instance
\* of a class, and leaves every object and every Observable as it was.
C23_ObserveRejects ==
  [][(op'.name = "observe" /\ op'.args[1] \in NotPlainArguments) =>
       /\ exc' = NOT_PLAIN_OBJECT
       /\ ret' = <<>>
       /\ objs' = objs
       /\ obsv' = obsv]_vars

\* observe was called with the instance of a class as the last of the calls
C23_Witness ==
  /\ op.name = "observe"
  /\ op.args = <<Ref(5)>>
  /\ exc = NOT_PLAIN_OBJECT
  /\ nops = MaxOps

\* every segment of the path is an own field of the object reached so far
RECURSIVE Present(_, _)
Present(v, path) ==
  \/ path = <<>>
  \/ /\ ValueHasOwn(World, v, Head(path))
     /\ \/ Len(path) = 1
        \/ /\ Head(path) # "length"
           /\ Present(RawValue(World, v.n, KeyOf(World, v.n, Head(path))), Tail(path))

\* C24: navigateToPropertyPath fails with the error for a path that is not
\* found, without calling the callback, when a segment of the path is not an
\* own field of the value reached so far (also when that value is null,
\* undefined or a number); otherwise it calls the callback once with the object
\* that holds the last segment, and the last segment.
C24_ResolveOrPathNotFound ==
  [][op'.name = "resolve" =>
       IF Present(Root, op'.path)
         THEN /\ exc' = NoError
              /\ ret' = <<<<RawAt(World, Root, Parent(op'.path)), Last(op'.path)>>>>
         ELSE /\ exc' = PATH_NOT_FOUND
              /\ ret' = <<>>]_vars

\* C25: addPropertyWatcher and removePropertyWatcher fail with the error for a
\* property that is not observable when the path resolves to a property without
\* an Observable, and then no Observable (so no list of watchers) is changed.
C25_NotObservable ==
  [][(/\ op'.name \in {"addWatcher", "removeWatcher"}
      /\ Present(Root, op'.path)
      /\ PropAt(World, Root, op'.path).o = 0) =>
       /\ exc' = NOT_OBSERVABLE
       /\ obsv' = obsv]_vars

\* the length of the observed sequence was given to removePropertyWatcher
\* while a field had a watcher
C25_Witness ==
  /\ op.name = "removeWatcher"
  /\ op.path = <<"items", "length">>
  /\ RootObserved
  /\ exc = NOT_OBSERVABLE
  /\ \E o \in 1..Len(obsv) : obsv[o].watchers # <<>>

\* C26: when a write or a wrapped sequence call made under Enabled has changed
\* the value of a ComputedObservable, every watcher that was registered on that
\* ComputedObservable has been called during the call with the new and the
\* previous value of the computed field.
C26_ComputedWatcherCalled ==
  [][(op'.name \in {"write", "call"} /\ op'.mode = Enabled) =>
       \A c \in ComputedObservables :
         obsv'[c].value # obsv[c].value =>
           \A i \in 1..Len(obsv[c].watchers) :
             \E j \in DOMAIN calls' :
               calls'[j] = [fn |-> obsv[c].watchers[i], o |-> c,
                            value |-> obsv'[c].value, oldValue |-> obsv[c].value]]_vars

\* push has changed the computed field count from 2 to 3 and a watcher of
\* count was called
C26_Witness ==
  /\ op.name = "call"
  /\ op.method = "push"
  /\ exc = NoError
  /\ \E j \in DOMAIN calls :
       /\ obsv[calls[j].o].fn = 4
       /\ calls[j].value = Num(3)
       /\ calls[j].oldValue = Num(2)

Steps(l) == [i \in DOMAIN l |-> [kind |-> l[i].kind, o |-> l[i].o, fn |-> l[i].fn]]

\* the steps of update on the Observable o, from the watchers and observers
\* registered before the call: the store, the watchers in the order of their
\* list, then for every observer in the order of its list its evaluation
\* followed by the steps of its own update
RECURSIVE CascadeOf(_)
RECURSIVE CascadeOfObservers(_, _)
CascadeOf(o) ==
  <<[kind |-> "store", o |-> o, fn |-> ""]>>
    \o [i \in 1..Len(obsv[o].watchers) |-> [kind |-> "call", o |-> o, fn |-> obsv[o].watchers[i]]]
    \o CascadeOfObservers(o, 1)

CascadeOfObservers(o, i) ==
  IF i > Len(obsv[o].observers) THEN <<>>
  ELSE <<[kind |-> "evaluate", o |-> obsv[o].observers[i], fn |-> ""]>>
         \o CascadeOf(obsv[o].observers[i]) \o CascadeOfObservers(o, i + 1)

\* the index of the last store on the Observable o among the first i entries of l (0: none)
LastStore(l, o, i) ==
  IF \E j \in 1..i : l[j].kind = "store" /\ l[j].o = o
    THEN CHOOSE j \in 1..i : /\ l[j].kind = "store" /\ l[j].o = o
                            /\ \A k \in (j + 1)..i : ~(l[k].kind = "store" /\ l[k].o = o)
    ELSE 0

\* C28: a write under Enabled of a value that differs from the stored one
\* stores the value, then calls the watchers of the field in the order they
\* were added, each with the new and the old value while the field already
\* holds the new one, then evaluates the dependent ComputedObservables in the
\* order they were registered, each result going through the same steps before
\* the next one is evaluated; when the write returns every Observable holds
\* the value stored last.
C28_CascadeOrder ==
  [][(op'.name = "write" /\ op'.mode = Enabled /\ exc' = NoError /\ op'.args[1] # op'.old) =>
       /\ Steps(log') = CascadeOf(PropAt(World, Root, op'.path).o)
       /\ log'[1].value = op'.args[1]
       /\ log'[1].oldValue = op'.old
       /\ \A i \in DOMAIN log' :
            /\ log'[i].kind = "call" =>
                 /\ log'[i].value = log'[LastStore(log', log'[i].o, i)].value
                 /\ log'[i].oldValue = log'[LastStore(log', log'[i].o, i)].oldValue
                 /\ log'[i].seen = log'[i].value
            /\ log'[i].kind = "evaluate" =>
                 /\ log'[i + 1].kind = "store"
                 /\ log'[i + 1].o = log'[i].o
                 /\ log'[i + 1].value = log'[i].value
                 /\ log'[i + 1].oldValue = obsv[log'[i].o].value
            /\ log'[i].kind = "store" =>
                 obsv'[log'[i].o].value = log'[LastStore(log', log'[i].o, Len(log'))].value]_vars

\* a write of price was made while price had two watchers: both were called,
\* total, twice and guarded were evaluated
C28_Witness ==
  /\ op.name = "write"
  /\ op.path = <<"price">>
  /\ op.mode = Enabled
  /\ exc = NoError
  /\ Len(log) = 9
  /\ log[2].kind = "call" /\ log[3].kind = "call" /\ log[2].fn # log[3].fn
  /\ log[4].kind = "evaluate" /\ obsv[log[4].o].fn = 1
  /\ log[6].kind = "evaluate" /\ obsv[log[6].o].fn = 2
  /\ log[8].kind = "evaluate" /\ obsv[log[8].o].fn = 3

\* C29: an update made by a write under Enabled calls every watcher that was
\* registered on the Observable when the write started exactly once, with
\* the new and the old value, also when one of the watchers removes itself
\* from the Observable while it is called.
C29_EveryWatcherOnce ==
  [][(op'.name = "write" /\ op'.mode = Enabled /\ exc' = NoError /\ op'.args[1] # op'.old) =>
       \A o \in Range(FieldObservables(op'.path)) :
         \A i \in 1..Len(obsv[o].watchers) :
           Cardinality({j \in DOMAIN calls' :
                          calls'[j] = [fn |-> obsv[o].watchers[i], o |-> o,
                                       value |-> op'.args[1], oldValue |-> op'.old]}) = 1]_vars

\* C30: a wrapped splice(start, deleteCount, ...items) that returns under
\* Enabled leaves max(0, number of arguments - 2 - deleteCount) indices of the
\* sequence with an Observable created during the call, and they are the
\* indices start, start + 1, ... of the inserted items; push and unshift leave
\* as many as they were given values.
C30_FreshObservables ==
  [][(/\ op'.name = "call"
      /\ op'.method \in {"splice", "push", "unshift"}
      /\ op'.mode = Enabled
      /\ exc' = NoError
      /\ objs[op'.old.n].augmented) =>
       LET elems == objs'[op'.old.n].elems
           fresh == {k \in 0..(Len(elems) - 1) : elems[k + 1].here /\ elems[k + 1].o > Len(obsv)}
           amount == IF op'.method = "splice"
                       THEN Max(0, Len(op'.args) - 2 - op'.args[2].n)
                       ELSE Len(op'.args)
       IN /\ Cardinality(fresh) = amount
          /\ op'.method = "splice" => fresh = op'.args[1].n .. (op'.args[1].n + amount - 1)]_vars

\* every watcher put on a path and not taken off is a watcher of the Observable
\* that the raw accessor of the path yields
WatchersOnAccessor ==
  \A e \in watching :
    PropAt(World, Root, e.path).o # 0 =>
      \E i \in 1..Len(obsv[PropAt(World, Root, e.path).o].watchers) :
        obsv[PropAt(World, Root, e.path).o].watchers[i] = e.fn

\* C31: the Observable that backs a field or an index of a sequence is never
\* replaced by a call, and after every call each watcher that
\* addPropertyWatcher has put on a path (and removePropertyWatcher has not
\* taken off) is a watcher of the Observable that the raw accessor of that
\* path yields.
C31_OneObservablePerField ==
  [][/\ \A id \in 1..Len(objs) :
          \A j \in 1..Len(objs[id].elems) :
            (objs[id].elems[j].here /\ objs[id].elems[j].o # 0 /\ j <= Len(objs'[id].elems)
               /\ objs'[id].elems[j].here)
              => objs'[id].elems[j].o = objs[id].elems[j].o
     /\ WatchersOnAccessor']_vars

\* C32: guarded() returns this.qty unless this.price is 1.  It did not read
\* qty when it was constructed with the price 1; once a write of another
\* price has made it read qty, a write of qty under Enabled recomputes it:
\* when the write has returned, the computed field holds the new qty.
C32_DependenciesFollowEvaluation ==
  (EnabledWriteOfNewValue /\ exc = NoError /\ op.path = <<"qty">> /\ Value(<<"price">>) # Num(1)) =>
    Value(<<"guarded">>) = op.args[1]

\* the Observable behind a field of the observed object
ObservableOf(k) == GetOwnProperty(objs[Root.n], k).o

\* C33: the construction of one, made while nesting is evaluated for its own
\* construction, leaves the marker empty: nesting is a dependent of price,
\* which it read before, and never of qty, which it read after; so a write
\* of qty evaluates nothing and leaves nesting as it was, and a write of a new
\* price under Enabled evaluates nesting.
C33_NestedConstructionClearsMarker ==
  /\ currentEvaluatingObservable = 0
  /\ obsv[ObservableOf("price")].observers = <<ObservableOf("nesting")>>
  /\ obsv[ObservableOf("qty")].observers = <<>>
  /\ (op.name = "write" /\ op.path = <<"qty">>) => evals = <<>>
  /\ (EnabledWriteOfNewValue /\ op.path = <<"price">>) =>
       \E i \in DOMAIN evals : evals[i].c = ObservableOf("nesting")

\* qty was written and nesting still holds the product with the former qty
C33_Witness ==
  /\ op.name = "write"
  /\ op.path = <<"qty">>
  /\ exc = NoError
  /\ Value(<<"qty">>) = Num(5)
  /\ Value(<<"nesting">>) = Num(20)

\* C34: when processReactivityQueue exits by the exception of an item it
\* invoked, the reactivity state is the one it was called in.
C34_DrainRestoresOnException ==
  [][(op'.name = "processReactivityQueue" /\ exc' # NoError)
       => reactivityState' = reactivityState]_vars

(***************************************************************************)
(* Spec: a client that defers writes under Lazy and drains the queue,      *)
(* while a watcher of price copies the value it receives to qty.           *)
(***************************************************************************)
InitDrain == InitWorld(Observed("numbers", Lazy))

NextDrain ==
  \/ \E path \in FieldPaths : \E n \in Numbers : nops < MaxOps /\ WriteField(path, LNum(n))
  \/ nops < MaxOps /\ AddWatcher(<<"price">>, WritingWatcher)
  \/ \E path \in {<<"qty">>, <<"total">>} : nops < MaxOps /\ AddWatcher(path, "w1")
  \/ \E state \in {Lazy, Enabled} : nops < MaxOps /\ SetMode(state)
  \/ nops < MaxOps /\ ProcessQueue

SpecDrain == InitDrain /\ [][NextDrain]_vars

\* the value the Observable o holds just before entry i of the log
HeldAt(o, i) ==
  IF LastStore(log, o, i - 1) # 0 THEN log[LastStore(log, o, i - 1)].value
  ELSE IF \E j \in DOMAIN log : log[j].kind = "store" /\ log[j].o = o
    THEN log[CHOOSE j \in DOMAIN log : /\ log[j].kind = "store" /\ log[j].o = o
                                       /\ \A k \in 1..(j - 1) : ~(log[k].kind = "store" /\ log[k].o = o)].oldValue
    ELSE obsv[o].value

StoreAt(o, i) == i \in DOMAIN log /\ log[i].kind = "store" /\ log[i].o = o

\* C35: after processReactivityQueue returned, the queue is empty, it replayed
\* exactly the items that were queued when it was called, each under Enabled,
\* and every write a watcher made during the replay was stored at once: the
\* call of the writing watcher is followed by the store of its value in qty
\* (or by nothing when qty held that value already).
C35_NestedMutationsApplied ==
  (op.name = "processReactivityQueue" /\ exc = NoError) =>
    /\ reactivityActionQueue = <<>>
    /\ Len(replays) = op.queued
    /\ \A i \in DOMAIN replays : replays[i].mode = Enabled
    /\ \A i \in DOMAIN log :
         (log[i].kind = "call" /\ log[i].fn = WritingWatcher) =>
           IF HeldAt(ObservableOf("qty"), i) = log[i].value
             THEN ~StoreAt(ObservableOf("qty"), i + 1)
             ELSE StoreAt(ObservableOf("qty"), i + 1) /\ log[i + 1].value = log[i].value
    /\ obsv[ObservableOf("qty")].value = HeldAt(ObservableOf("qty"), Len(log) + 1)

\* a drain called under Lazy replayed a write of price; the watcher of price
\* wrote qty during the replay, the value was stored and total evaluated again
C35_Witness ==
  /\ op.name = "processReactivityQueue"
  /\ op.mode = Lazy
  /\ op.queued = 1
  /\ exc = NoError
  /\ \E i \in DOMAIN log :
       /\ log[i].kind = "call" /\ log[i].fn = WritingWatcher
       /\ StoreAt(ObservableOf("qty"), i + 1)
       /\ log[i + 2].kind = "evaluate" /\ log[i + 2].o = ObservableOf("total")
  /\ Value(<<"qty">>) = Value(<<"price">>)

(***************************************************************************)
(* Spec: a client that batches its writes and array calls under Lazy and   *)
(* replays them; it adds its watchers while nothing is deferred.           *)
(***************************************************************************)
DeferWrites ==
  {[path |-> <<"price">>, lit |-> LNum(n)] : n \in Numbers}
    \cup {[path |-> <<"items", i>>, lit |-> LNum(n)] : i \in {"0", "1"}, n \in 1..MaxNum}
    \cup {[path |-> <<"items">>, lit |-> LArr(<<1>>)]}

DeferCalls ==
  {[method |-> "push", lits |-> <<LNum(1)>>],
   [method |-> "pop", lits |-> <<>>],
   [method |-> "shift", lits |-> <<>>],
   [method |-> "reverse", lits |-> <<>>],
   [method |-> "splice", lits |-> <<LNum(0), LNum(0)>>]}

InitDefer == \E variant \in Variants : InitWorld(Observed(variant, Lazy))

NextDefer ==
  \/ \E c \in DeferWrites : nops < MaxOps /\ WriteField(c.path, c.lit)
  \/ \E c \in DeferCalls : nops < MaxOps /\ CallMethod(Items, c.method, c.lits)
  \/ \E path \in WatchPaths \cup {Items, <<"items", "0">>} :
       nops < MaxOps /\ reactivityActionQueue = <<>> /\ AddWatcher(path, "w1")
  \/ nops < MaxOps /\ ProcessQueue

SpecDefer == InitDefer /\ [][NextDefer]_vars

\* the object and the key of the property whose accessors belong to the Observable o
OwnerOf(w, o) ==
  LET id == CHOOSE i \in 1..Len(w.objs) :
              \E j \in 1..Len(ObjectKeys(w.objs[i])) :
                GetOwnProperty(w.objs[i], ObjectKeys(w.objs[i])[j]).o = o
      j == CHOOSE j \in 1..Len(ObjectKeys(w.objs[id])) :
             GetOwnProperty(w.objs[id], ObjectKeys(w.objs[id])[j]).o = o
  IN [id |-> id, k |-> ObjectKeys(w.objs[id])[j]]

\* the client issuing, one after the other under Enabled, the writes and the
\* array calls that the items record, on the receivers found in the world w0;
\* an exception ends the run as it ends the client's statement list
RECURSIVE IssueEnabled(_, _, _)
IssueEnabled(w, w0, items) ==
  IF items = <<>> \/ ~Ok(w) THEN w
  ELSE IssueEnabled(IF Head(items).func = "reactiveSetter"
                      THEN Set(w, OwnerOf(w0, Head(items).closure).id,
                               OwnerOf(w0, Head(items).closure).k, Head(items).args[1])
                      ELSE mutator(w, Head(items).func, Head(items).context.n, Head(items).args).w,
                    w0, Tail(items))

\* what reading every property of every object of the world w returns
FieldValues(w) ==
  [id \in 1..Len(w.objs) |->
     [j \in 1..Len(ObjectKeys(w.objs[id])) |->
        [key |-> ObjectKeys(w.objs[id])[j], value |-> RawValue(w, id, ObjectKeys(w.objs[id])[j])]]]

\* C36: a write or an array call made under Lazy changes nothing but the
\* queue, to which it appends the call with its receiver and arguments; and
\* processReactivityQueue leaves the field values, the array contents and the
\* list of watcher calls that issuing the recorded calls in order under
\* Enabled leaves.
C36_DeferredEqualsEnabled ==
  [][/\ (op'.name \in {"write", "call"} /\ reactivityState = Lazy /\ exc' = NoError) =>
          /\ obsv' = obsv
          /\ SubSeq(objs', 1, Len(objs)) = objs
          /\ calls' = <<>>
          /\ reactivityActionQueue' =
               Append(reactivityActionQueue,
                      IF op'.name = "write"
                        THEN [func |-> "reactiveSetter", closure |-> PropAt(World, Root, op'.path).o,
                              args |-> op'.args, context |-> Undefined]
                        ELSE [func |-> op'.method, closure |-> 0, args |-> op'.args,
                              context |-> op'.old])
     /\ op'.name = "processReactivityQueue" =>
          Bind(IssueEnabled([World EXCEPT !.mode = Enabled, !.queue = <<>>], World,
                            reactivityActionQueue),
               LAMBDA e : /\ FieldValues([objs |-> objs', obsv |-> obsv']) = FieldValues(e)
                          /\ calls' = e.calls
                          /\ exc' = e.exc)]_vars

(***************************************************************************)
(* Spec: a client that, under Enabled, assigns to a field a value that     *)
(* another field or element of the observed object holds.                  *)
(***************************************************************************)
AliasCopies ==
  {[path |-> <<"items", "0">>, from |-> <<"items", "1">>],
   [path |-> <<"items", "1">>, from |-> <<"items", "0">>],
   [path |-> <<"price">>, from |-> <<"items">>],
   [path |-> <<"qty">>, from |-> <<"items", "0">>]}

AliasWatchPaths == {<<"price">>, <<"qty">>, <<"items", "0">>, <<"items", "1">>}

InitAlias == \E variant \in Variants : InitWorld(Observed(variant, Enabled))

NextAlias ==
  \/ \E c \in AliasCopies : nops < MaxOps /\ CopyField(c.path, c.from)
  \/ \E n \in Numbers : nops < MaxOps /\ WriteField(<<"price">>, LNum(n))
  \/ \E path \in AliasWatchPaths : nops < MaxOps /\ AddWatcher(path, "w1")

SpecAlias == InitAlias /\ [][NextAlias]_vars

\* C37: a write made under Enabled of a value other than the stored one
\* returns without an exception, the field then holds the value written, and
\* every watcher of the field was called once - whatever the value is, a
\* number, or an object or array that the state holds already.
C37_WriteOfReactiveValue ==
  (op.name = "write" /\ op.mode = Enabled /\ op.args[1] # op.old) =>
    /\ exc = NoError
    /\ Value(op.path) = op.args[1]
    /\ \A o \in Range(FieldObservables(op.path)) :
         \A fn \in Range(obsv[o].watchers) : CallsBy(o, fn) = 1

(***************************************************************************)
(* Spec: a client that observes an object whose computed functions write   *)
(* a field and push to an array, then writes price under Enabled or        *)
(* defers the write and replays it.                                        *)
(***************************************************************************)
WritingFunctions == {7, 8}

InitPure ==
  \E variant \in {"writer", "early"} : \E state \in {Enabled, Lazy} :
    InitWorld([Loaded(variant) EXCEPT !.mode = state])

NextPure ==
  \/ nops < MaxOps /\ ~RootObserved /\ Observe(Root)
  \/ \E n \in Numbers : nops < MaxOps /\ RootObserved /\ WriteField(<<"price">>, LNum(n))
  \/ \E path \in {<<"qty">>, <<"writer">>} : nops < MaxOps /\ RootObserved /\ AddWatcher(path, "w1")
  \/ \E state \in {Lazy, Enabled} : nops < MaxOps /\ RootObserved /\ SetMode(state)
  \/ nops < MaxOps /\ RootObserved /\ ProcessQueue

SpecPure == InitPure /\ [][NextPure]_vars

\* C38: a call during which writer or pusher was evaluated leaves qty and
\* every array as they were, calls no watcher of a field other than price and
\* the computed fields, leaves in the queue only the writes of price the
\* client deferred, and each such evaluation yielded undefined.
C38_ComputeCannotWrite ==
  [][(\E i \in DOMAIN evals' : obsv'[evals'[i].c].fn \in WritingFunctions) =>
       /\ RawAt(World', Root, <<"qty">>) = RawAt(World, Root, <<"qty">>)
       /\ \A id \in 1..Len(objs) :
            objs[id].isArray => ArrayValues(World', id) = ArrayValues(World, id)
       /\ \A i \in DOMAIN calls' :
            \/ calls'[i].o = PropAt(World', Root, <<"price">>).o
            \/ obsv'[calls'[i].o].fn # 0
       /\ \A i \in DOMAIN reactivityActionQueue' :
            /\ reactivityActionQueue'[i].func = "reactiveSetter"
            /\ reactivityActionQueue'[i].closure = PropAt(World', Root, <<"price">>).o
       /\ \A i \in DOMAIN evals' :
            obsv'[evals'[i].c].fn \in WritingFunctions => evals'[i].threw /\ evals'[i].v = Undefined]_vars

(***************************************************************************)
(* Spec: a client that observes an object with computed functions (one of  *)
(* which may throw, one of which observes another object), then reads and  *)
(* writes its fields, watches price with a watcher that reads qty, defers  *)
(* and replays.                                                            *)
(***************************************************************************)
InitMarker == \E variant \in {"guarded", "untaken", "nesting"} : InitWorld(Loaded(variant))

NextMarker ==
  \/ nops < MaxOps /\ ~RootObserved /\ Observe(Root)
  \/ \E path \in FieldPaths : \E n \in Numbers :
       nops < MaxOps /\ RootObserved /\ WriteField(path, LNum(n))
  \/ nops < MaxOps /\ RootObserved /\ AddWatcher(<<"price">>, ReadingWatcher)
  \/ \E path \in FieldPaths : nops < MaxOps /\ RootObserved /\ Resolve(path)
  \/ \E state \in {Lazy, Enabled} : nops < MaxOps /\ RootObserved /\ SetMode(state)
  \/ nops < MaxOps /\ RootObserved /\ ProcessQueue

SpecMarker == InitMarker /\ [][NextMarker]_vars

\* C39: every call leaves currentEvaluatingObservable undefined, and a call
\* other than observe - a read, a write with the evaluations and watcher
\* calls it causes, a drain - leaves the observers of every Observable as
\* they were.
C39_MarkerEmptyOutsideConstruction ==
  [][/\ currentEvaluatingObservable' = 0
     /\ op'.name # "observe" =>
          \A o \in DOMAIN obsv : obsv'[o].observers = obsv[o].observers]_vars

\* guarded threw when it was constructed (price was 1); a later write of price
\* called the watcher that reads qty, and guarded was evaluated again and read
\* qty: the marker is empty and qty has the one dependent total
C39_Witness ==
  /\ op.name = "write"
  /\ op.path = <<"price">>
  /\ op.old = Num(1)
  /\ exc = NoError
  /\ \E i \in DOMAIN calls : calls[i].fn = ReadingWatcher
  /\ \E i \in DOMAIN evals : ~evals[i].threw /\ obsv[evals[i].c].fn = 3
  /\ currentEvaluatingObservable = 0
  /\ obsv[ObservableOf("qty")].observers = <<ObservableOf("total")>>

\* the Observables reached from those of S along at most depth dependent edges
RECURSIVE DependentsOf(_, _)
DependentsOf(S, depth) ==
  IF depth = 0 THEN S
  ELSE DependentsOf(S \cup UNION {Range(obsv[o].observers) : o \in S}, depth - 1)

\* the Observables of fields and sequences that the last call updated
UpdatedFields == {upd[j].o : j \in {k \in DOMAIN upd : obsv[upd[k].o].fn = 0}}

\* C40: every dependent edge runs from an Observable to a ComputedObservable
\* created after it, so no path of edges returns to its start; and a call
\* that returned evaluated only dependents reachable from the Observables it
\* updated, no more often than there are ComputedObservables per update.
C40_DependentsAcyclic ==
  /\ \A o \in DOMAIN obsv : \A i \in DOMAIN obsv[o].observers :
       /\ obsv[obsv[o].observers[i]].fn # 0
       /\ o < obsv[o].observers[i]
  /\ \A o \in DOMAIN obsv : o \notin DependentsOf(Range(obsv[o].observers), Len(obsv))
  /\ op.name \in {"write", "call", "processReactivityQueue"} =>
       /\ \A i \in DOMAIN evals : evals[i].c \in DependentsOf(UpdatedFields, Len(obsv))
       /\ Len(evals) <= Cardinality(ComputedObservables) * Cardinality(DOMAIN upd)

\* a write of price under Enabled returned after its cascade evaluated total,
\* then twice (the dependent of total), then guarded
C40_Witness ==
  /\ op.name = "write"
  /\ op.path = <<"price">>
  /\ op.mode = Enabled
  /\ exc = NoError
  /\ Len(evals) = 3
  /\ obsv[evals[1].c].fn = 1
  /\ obsv[evals[2].c].fn = 2
  /\ obsv[evals[3].c].fn = 3
  /\ evals[2].c \in Range(obsv[evals[1].c].observers)

====
